---- MODULE Spec2Model ----
(***************************************************************************)
(* A model of dibber's SQL editing engine: the value codec, the dialect    *)
(* switch, the statement generators, the detail-view key handler, the      *)
(* statement locator and the statement splitter.                           *)
(*                                                                         *)
(* A Go string is modelled as a sequence of one-character strings          *)
(* (<<"a", "b">> is "ab"); every input of the engine is ASCII, so bytes    *)
(* and runes coincide.                                                     *)
(***************************************************************************)
EXTENDS Integers, Sequences, FiniteSets, TLC

VARIABLES
    args,           \* arguments of the pure function under call
    ret,            \* what the call returned: [fn, val], fn = "none" before the call
    dbType,         \* Model.dbType
    textarea,       \* Model.textarea: [value, row], the buffer and the cursor's line
    focus,          \* Model.focus
    result,         \* Model.result: [Columns, ColumnTypes, Rows]
    queryMeta,      \* Model.queryMeta: Nil or [TableName, IsEditable, IDColumn, IDIndex]
    detailView,     \* Model.detailView: Nil or [originalValues, inputs, isNull, columnTypes, focusedField]
    statusMessage,  \* Model.statusMessage
    lastQuery,      \* Model.lastQuery
    selectedRow,    \* Model.selectedRow
    currentPage,    \* Model.currentPage
    totalPages,     \* Model.totalPages
    connectionPicker, \* Model.connectionPicker: Nil or the state of the picker
    vaultManager,   \* Model.vaultManager: Nil or [config, vault]
    configFile,     \* ~/.dibber.yaml: Nil or the Config last saved
    pipeRun         \* the run of runPipeMode: Nil or its position and output

vars == <<args, ret, dbType, textarea, focus, result, queryMeta, detailView,
          statusMessage, lastQuery, selectedRow, currentPage, totalPages,
          connectionPicker, vaultManager, configFile, pipeRun>>

callVars == <<args, ret>>
pageVars == <<currentPage, totalPages>>
otherVars == <<connectionPicker, vaultManager, configFile, pipeRun>>
modelVarsButPipe == <<dbType, textarea, focus, result, queryMeta, detailView,
                      statusMessage, lastQuery, selectedRow, pageVars,
                      connectionPicker, vaultManager, configFile>>
modelVars == <<dbType, textarea, focus, result, queryMeta, detailView,
               statusMessage, lastQuery, selectedRow, pageVars, otherVars>>

Nil == [nil |-> TRUE]

\* the rows of one page of the results table
pageSize == 20

(***************************************************************************)
(* Bounds of the model.                                                    *)
(***************************************************************************)
MaxLen == 3         \* longest value text handed to formatValueForSQL
MaxNumLen == 4      \* longest text handed to isValidNumber
MaxInput == 1       \* longest text typed into a field of the detail view
MaxBuffer == 24     \* longest buffer in which keys other than Ctrl+R are followed
MaxSplitLen == 4    \* longest text over SplitAlphabet handed to SplitStatements
MaxPipeStatements == 2  \* most pieces joined into the standard input of pipe mode
MaxCursorLen == 5   \* longest buffer handed to getQueryUnderCursor
MaxTyped == 1       \* longest name or DSN typed into the connection picker

(***************************************************************************)
(* Go's strings package, as far as the engine uses it.                     *)
(***************************************************************************)
LowerLetters == <<"a","b","c","d","e","f","g","h","i","j","k","l","m",
                  "n","o","p","q","r","s","t","u","v","w","x","y","z">>
UpperLetters == <<"A","B","C","D","E","F","G","H","I","J","K","L","M",
                  "N","O","P","Q","R","S","T","U","V","W","X","Y","Z">>
Digits == {"0","1","2","3","4","5","6","7","8","9"}
Space == {" ", "\t", "\n", "\r"}

ToLowerChar(c) ==
    IF \E k \in 1..26 : UpperLetters[k] = c
    THEN LowerLetters[CHOOSE k \in 1..26 : UpperLetters[k] = c]
    ELSE c

ToUpperChar(c) ==
    IF \E k \in 1..26 : LowerLetters[k] = c
    THEN UpperLetters[CHOOSE k \in 1..26 : LowerLetters[k] = c]
    ELSE c

ToLower(s) == [k \in 1..Len(s) |-> ToLowerChar(s[k])]
ToUpper(s) == [k \in 1..Len(s) |-> ToUpperChar(s[k])]

RECURSIVE TrimLeft(_, _)
TrimLeft(s, cutset) ==
    IF s # <<>> /\ Head(s) \in cutset THEN TrimLeft(Tail(s), cutset) ELSE s

RECURSIVE TrimRight(_, _)
TrimRight(s, cutset) ==
    IF s # <<>> /\ s[Len(s)] \in cutset
    THEN TrimRight(SubSeq(s, 1, Len(s) - 1), cutset)
    ELSE s

TrimSpace(s) == TrimRight(TrimLeft(s, Space), Space)

HasPrefix(s, p) == Len(s) >= Len(p) /\ SubSeq(s, 1, Len(p)) = p
HasSuffix(s, p) == Len(s) >= Len(p) /\ SubSeq(s, Len(s) - Len(p) + 1, Len(s)) = p
TrimSuffix(s, p) == IF HasSuffix(s, p) THEN SubSeq(s, 1, Len(s) - Len(p)) ELSE s

Contains(s, sub) ==
    \E k \in 0..(Len(s) - Len(sub)) : SubSeq(s, k + 1, k + Len(sub)) = sub

\* strings.Index: the 0-based offset of the first occurrence, or -1
Index(s, sub) ==
    IF Contains(s, sub)
    THEN CHOOSE k \in 0..(Len(s) - Len(sub)) :
             /\ SubSeq(s, k + 1, k + Len(sub)) = sub
             /\ \A j \in 0..(k - 1) : SubSeq(s, j + 1, j + Len(sub)) # sub
    ELSE -1

\* strings.Split(s, sep) for a one-character sep
RECURSIVE Split(_, _)
Split(s, sep) ==
    LET k == Index(s, <<sep>>) IN
    IF k = -1 THEN <<s>>
    ELSE <<SubSeq(s, 1, k)>> \o Split(SubSeq(s, k + 2, Len(s)), sep)

\* strings.Fields: the maximal runs of non-space characters
RECURSIVE Fields(_)
Fields(s) ==
    LET t == TrimLeft(s, Space) IN
    IF t = <<>> THEN <<>>
    ELSE LET ends == {k \in 1..Len(t) : t[k] \in Space}
             n == IF ends = {} THEN Len(t)
                  ELSE (CHOOSE k \in ends : \A j \in ends : k <= j) - 1
         IN  <<SubSeq(t, 1, n)>> \o Fields(SubSeq(t, n + 1, Len(t)))

\* strings.ReplaceAll for a non-empty old: non-overlapping matches, left to right
RECURSIVE ReplaceAll(_, _, _)
ReplaceAll(s, old, new) ==
    IF s = <<>> THEN <<>>
    ELSE IF HasPrefix(s, old)
         THEN new \o ReplaceAll(SubSeq(s, Len(old) + 1, Len(s)), old, new)
         ELSE <<Head(s)>> \o ReplaceAll(Tail(s), old, new)

RECURSIVE Join(_, _)
Join(elems, sep) ==
    IF elems = <<>> THEN <<>>
    ELSE IF Len(elems) = 1 THEN elems[1]
    ELSE elems[1] \o sep \o Join(Tail(elems), sep)

\* every string over an alphabet, up to a length
StringsUpTo(alphabet, n) == UNION {[1..k -> alphabet] : k \in 0..n}

(***************************************************************************)
(* types.go: ColumnType and its helpers.                                   *)
(***************************************************************************)
ColTypeText == "text"
ColTypeNumeric == "numeric"
ColTypeBoolean == "boolean"
ColTypeDatetime == "datetime"
ColTypeBlob == "blob"
ColTypeUnknown == "unknown"
ColumnTypes == {ColTypeText, ColTypeNumeric, ColTypeBoolean, ColTypeDatetime,
                ColTypeBlob, ColTypeUnknown}

IsNumeric(ct) == ct = ColTypeNumeric
IsBoolean(ct) == ct = ColTypeBoolean

(***************************************************************************)
(* The value codec: escapeSQLString, isValidNumber, formatValueForSQL.     *)
(***************************************************************************)
\* mutant: embedded single quotes are left as they are
escapeSQLString_NoEscape(s) == s

escapeSQLString(s) == ReplaceAll(s, <<"'">>, <<"'", "'">>)

\* mutant: the escaped text is not wrapped in single quotes
Quoted_Bare(s) == escapeSQLString(s)

Quoted(s) == <<"'">> \o escapeSQLString(s) \o <<"'">>

\* the for loop of isValidNumber over s, at (1-based) index i
RECURSIVE isValidNumberScan(_, _, _, _)
isValidNumberScan(s, i, hasDecimal, hasDigit) ==
    IF i > Len(s) THEN hasDigit
    ELSE LET ch == s[i] IN
         IF ch \in Digits THEN isValidNumberScan(s, i + 1, hasDecimal, TRUE)
         ELSE IF ch = "." /\ ~hasDecimal THEN isValidNumberScan(s, i + 1, TRUE, hasDigit)
         ELSE IF ch \in {"e", "E"} /\ hasDigit /\ i < Len(s)
              THEN LET rest0 == SubSeq(s, i + 1, Len(s))
                       rest == IF rest0[1] \in {"+", "-"} THEN Tail(rest0) ELSE rest0
                   IN  IF \E k \in 1..Len(rest) : rest[k] \notin Digits
                       THEN FALSE
                       ELSE Len(rest) > 0
              ELSE FALSE

\* mutant: the surrounding whitespace is not trimmed
isValidNumber_NoTrim(s0) ==
    IF s0 = <<>> THEN FALSE
    ELSE LET s == IF s0[1] \in {"-", "+"} THEN Tail(s0) ELSE s0
         IN  IF s = <<>> THEN FALSE ELSE isValidNumberScan(s, 1, FALSE, FALSE)

isValidNumber(s0) ==
    LET t == TrimSpace(s0) IN
    IF t = <<>> THEN FALSE
    ELSE LET s == IF t[1] \in {"-", "+"} THEN Tail(t) ELSE t
         IN  IF s = <<>> THEN FALSE ELSE isValidNumberScan(s, 1, FALSE, FALSE)

Mysql == <<"m","y","s","q","l">>
LitNULL == <<"N","U","L","L">>
LitTRUE == <<"T","R","U","E">>
LitFALSE == <<"F","A","L","S","E">>
TrueWords == {<<"t","r","u","e">>, <<"1">>, <<"y","e","s">>, <<"o","n">>, <<"t">>}
FalseWords == {<<"f","a","l","s","e">>, <<"0">>, <<"n","o">>, <<"o","f","f">>, <<"f">>}

\* mutant: the empty text is tested before the NULL flag
formatValueForSQL_EmptyFirst(value, isNull, colType, db) ==
    IF value = <<>> THEN <<"'", "'">>
    ELSE IF isNull THEN LitNULL
    ELSE IF IsNumeric(colType)
         THEN IF isValidNumber(value) THEN value ELSE Quoted(value)
    ELSE IF IsBoolean(colType)
         THEN LET lower == ToLower(value) IN
              IF lower \in TrueWords
              THEN (IF db = Mysql THEN <<"1">> ELSE LitTRUE)
              ELSE IF lower \in FalseWords
              THEN (IF db = Mysql THEN <<"0">> ELSE LitFALSE)
              ELSE Quoted(value)
    ELSE Quoted(value)

\* mutant: a numeric text is emitted without validation
formatValueForSQL_NumericUnchecked(value, isNull, colType, db) ==
    IF isNull THEN LitNULL
    ELSE IF value = <<>> THEN <<"'", "'">>
    ELSE IF IsNumeric(colType) THEN value
    ELSE IF IsBoolean(colType)
         THEN LET lower == ToLower(value) IN
              IF lower \in TrueWords
              THEN (IF db = Mysql THEN <<"1">> ELSE LitTRUE)
              ELSE IF lower \in FalseWords
              THEN (IF db = Mysql THEN <<"0">> ELSE LitFALSE)
              ELSE Quoted(value)
    ELSE Quoted(value)

\* mutant: the boolean words are matched case-sensitively
formatValueForSQL_CaseSensitive(value, isNull, colType, db) ==
    IF isNull THEN LitNULL
    ELSE IF value = <<>> THEN <<"'", "'">>
    ELSE IF IsNumeric(colType)
         THEN IF isValidNumber(value) THEN value ELSE Quoted(value)
    ELSE IF IsBoolean(colType)
         THEN IF value \in TrueWords
              THEN (IF db = Mysql THEN <<"1">> ELSE LitTRUE)
              ELSE IF value \in FalseWords
              THEN (IF db = Mysql THEN <<"0">> ELSE LitFALSE)
              ELSE Quoted(value)
    ELSE Quoted(value)

formatValueForSQL(value, isNull, colType, db) ==
    IF isNull THEN LitNULL
    ELSE IF value = <<>> THEN <<"'", "'">>
    ELSE IF IsNumeric(colType)
         THEN IF isValidNumber(value) THEN value ELSE Quoted(value)
    ELSE IF IsBoolean(colType)
         THEN LET lower == ToLower(value) IN
              IF lower \in TrueWords
              THEN (IF db = Mysql THEN <<"1">> ELSE LitTRUE)
              ELSE IF lower \in FalseWords
              THEN (IF db = Mysql THEN <<"0">> ELSE LitFALSE)
              ELSE Quoted(value)
    ELSE Quoted(value)

(***************************************************************************)
(* The dialect token: main's -type flag, detectDBType, getDriverName and   *)
(* quoteIdentifier.                                                        *)
(***************************************************************************)
Postgres == <<"p","o","s","t","g","r","e","s">>
Postgresql == <<"p","o","s","t","g","r","e","s","q","l">>
Pg == <<"p","g">>
Sqlite == <<"s","q","l","i","t","e">>
Sqlite3 == <<"s","q","l","i","t","e","3">>
\* the backtick character, which a TLA+ string cannot hold, is the element "BACKTICK"
Backtick == <<"BACKTICK">>
DoubleQuote == <<"\"">>

detectDBType(dsn) ==
    LET dsnLower == ToLower(dsn) IN
    IF \/ HasPrefix(dsnLower, <<"p","o","s","t","g","r","e","s",":","/","/">>)
       \/ HasPrefix(dsnLower, <<"p","o","s","t","g","r","e","s","q","l",":","/","/">>)
       \/ Contains(dsnLower, <<"h","o","s","t","=">>)
    THEN Postgres
    ELSE IF \/ Contains(dsn, <<"@","t","c","p","(">>)
            \/ Contains(dsn, <<"@","u","n","i","x","(">>)
            \/ Contains(dsnLower, <<"m","y","s","q","l",":","/","/">>)
    THEN Mysql
    ELSE IF \/ HasSuffix(dsnLower, <<".","d","b">>)
            \/ HasSuffix(dsnLower, <<".","s","q","l","i","t","e">>)
            \/ HasSuffix(dsnLower, <<".","s","q","l","i","t","e","3">>)
            \/ dsnLower = <<":","m","e","m","o","r","y",":">>
            \/ HasPrefix(dsn, <<"/">>)
            \/ HasPrefix(dsn, <<".", "/">>)
            \/ HasPrefix(dsn, <<"f","i","l","e",":">>)
    THEN Sqlite
    ELSE <<>>

getDriverName(t) ==
    LET lower == ToLower(t) IN
    CASE lower = Mysql -> "mysql"
      [] lower \in {Postgres, Postgresql, Pg} -> "pgx"
      [] lower \in {Sqlite, Sqlite3} -> "sqlite3"
      [] OTHER -> ""

quoteIdentifier(db) ==
    CASE db = Mysql -> Backtick
      [] db \in {Postgres, Postgresql, Pg} -> DoubleQuote
      [] db \in {Sqlite, Sqlite3} -> DoubleQuote
      [] OTHER -> DoubleQuote

(***************************************************************************)
(* query.go: parseQueryMeta, extractTableName, getQueryUnderCursor.        *)
(* A QueryResult is [Columns, ColumnTypes, Rows, Error]; Error is whether  *)
(* the execution failed.  Offsets are 0-based as in the Go code; SubSeq is *)
(* 1-based, so content[a:b] is SubSeq(content, a + 1, b).                  *)
(***************************************************************************)
NotEditable == [TableName |-> <<>>, IsEditable |-> FALSE, IDColumn |-> <<>>, IDIndex |-> 0]

\* mutant: DISTINCT is not among the tokens
AggregateFuncs_NoDistinct ==
    {<<"C","O","U","N","T","(">>, <<"S","U","M","(">>, <<"A","V","G","(">>, <<"M","I","N","(">>, <<"M","A","X","(">>,
     <<"G","R","O","U","P","_","C","O","N","C","A","T","(">>, <<"G","R","O","U","P"," ","B","Y">>, <<"H","A","V","I","N","G">>}

AggregateFuncs ==
    {<<"C","O","U","N","T","(">>, <<"S","U","M","(">>, <<"A","V","G","(">>, <<"M","I","N","(">>, <<"M","A","X","(">>,
     <<"G","R","O","U","P","_","C","O","N","C","A","T","(">>, <<"G","R","O","U","P"," ","B","Y">>, <<"H","A","V","I","N","G">>, <<"D","I","S","T","I","N","C","T">>}

\* mutant: the backticks are kept
extractTableName_KeepBackticks(tablePart0) ==
    LET parts == Fields(TrimSpace(tablePart0))
    IN  IF Len(parts) = 0 THEN <<>> ELSE parts[1]

extractTableName(tablePart0) ==
    LET tablePart == ReplaceAll(TrimSpace(tablePart0), Backtick, <<>>)
        parts == Fields(tablePart)
    IN  IF Len(parts) = 0 THEN <<>> ELSE parts[1]

\* tablePart cut at keyword, if it occurs (the loop body over ORDER BY, LIMIT, GROUP BY)
CutAt(tablePart, keyword) ==
    LET idx == Index(ToUpper(tablePart), keyword) IN
    IF idx # -1 THEN SubSeq(tablePart, 1, idx) ELSE tablePart

\* mutant: a result that carries an error is classified like any other
parseQueryMeta_ErrorIgnored(query0, res) ==
    IF res = Nil THEN Nil
    ELSE
    LET query == TrimSpace(query0)
        upperQuery == ToUpper(query)
    IN
    IF ~HasPrefix(upperQuery, <<"S","E","L","E","C","T">>) THEN Nil
    ELSE IF \E agg \in AggregateFuncs : Contains(upperQuery, agg) THEN NotEditable
    ELSE IF Contains(upperQuery, <<" ","J","O","I","N"," ">>) THEN NotEditable
    ELSE
    LET fromIdx == Index(upperQuery, <<" ","F","R","O","M"," ">>) IN
    IF fromIdx = -1 THEN NotEditable
    ELSE
    LET afterFrom == SubSeq(query, fromIdx + 6 + 1, Len(query))
        whereIdx == Index(ToUpper(afterFrom), <<" ","W","H","E","R","E"," ">>)
        tablePart1 == IF whereIdx # -1 THEN SubSeq(afterFrom, 1, whereIdx) ELSE afterFrom
        tablePart2 == CutAt(CutAt(CutAt(tablePart1, <<" ","O","R","D","E","R"," ","B","Y"," ">>),
                                  <<" ","L","I","M","I","T"," ">>), <<" ","G","R","O","U","P"," ","B","Y"," ">>)
        tablePart == TrimSpace(tablePart2)
    IN
    IF Contains(tablePart, <<",">>) THEN NotEditable
    ELSE
    LET tableName == extractTableName(tablePart) IN
    IF tableName = <<>> THEN NotEditable
    ELSE
    LET ids == {i \in 1..Len(res.Columns) : ToLower(res.Columns[i]) = <<"i", "d">>} IN
    IF ids = {} THEN NotEditable
    ELSE LET first == CHOOSE i \in ids : \A j \in ids : i <= j IN
         [TableName |-> tableName, IsEditable |-> TRUE,
          IDColumn |-> res.Columns[first], IDIndex |-> first - 1]

parseQueryMeta(query0, res) ==
    IF res = Nil \/ res.Error THEN Nil
    ELSE
    LET query == TrimSpace(query0)
        upperQuery == ToUpper(query)
    IN
    IF ~HasPrefix(upperQuery, <<"S","E","L","E","C","T">>) THEN Nil
    ELSE IF \E agg \in AggregateFuncs : Contains(upperQuery, agg) THEN NotEditable
    ELSE IF Contains(upperQuery, <<" ","J","O","I","N"," ">>) THEN NotEditable
    ELSE
    LET fromIdx == Index(upperQuery, <<" ","F","R","O","M"," ">>) IN
    IF fromIdx = -1 THEN NotEditable
    ELSE
    LET afterFrom == SubSeq(query, fromIdx + 6 + 1, Len(query))
        whereIdx == Index(ToUpper(afterFrom), <<" ","W","H","E","R","E"," ">>)
        tablePart1 == IF whereIdx # -1 THEN SubSeq(afterFrom, 1, whereIdx) ELSE afterFrom
        tablePart2 == CutAt(CutAt(CutAt(tablePart1, <<" ","O","R","D","E","R"," ","B","Y"," ">>),
                                  <<" ","L","I","M","I","T"," ">>), <<" ","G","R","O","U","P"," ","B","Y"," ">>)
        tablePart == TrimSpace(tablePart2)
    IN
    IF Contains(tablePart, <<",">>) THEN NotEditable
    ELSE
    LET tableName == extractTableName(tablePart) IN
    IF tableName = <<>> THEN NotEditable
    ELSE
    LET ids == {i \in 1..Len(res.Columns) : ToLower(res.Columns[i]) = <<"i", "d">>} IN
    IF ids = {} THEN NotEditable
    ELSE LET first == CHOOSE i \in ids : \A j \in ids : i <= j IN
         [TableName |-> tableName, IsEditable |-> TRUE,
          IDColumn |-> res.Columns[first], IDIndex |-> first - 1]

\* the sum of len(lines[i]) + 1 over i < n
RECURSIVE LineStart(_, _)
LineStart(lines, n) ==
    IF n = 0 THEN 0 ELSE LineStart(lines, n - 1) + Len(lines[n]) + 1

\* the return value of the loop over semicolonPositions, or Nil when the
\* cursor lies after the last one; k indexes semicolonPositions from 1
RECURSIVE SegmentAt(_, _, _, _, _)
SegmentAt(content, semis, cursorPos, k, queryStart) ==
    IF k > Len(semis) THEN Nil
    ELSE IF cursorPos <= semis[k]
         THEN [query |-> TrimSpace(TrimSuffix(
                   TrimSpace(SubSeq(content, queryStart + 1, semis[k] + 1)), <<";">>))]
         ELSE SegmentAt(content, semis, cursorPos, k + 1, semis[k] + 1)

\* the 0-based offsets of the semicolons of content, in order
RECURSIVE SemicolonsFrom(_, _)
SemicolonsFrom(content, i) ==
    IF i > Len(content) THEN <<>>
    ELSE (IF content[i] = ";" THEN <<i - 1>> ELSE <<>>) \o SemicolonsFrom(content, i + 1)

getQueryUnderCursorAt(content, cursorLine) ==
    IF TrimSpace(content) = <<>> THEN <<>>
    ELSE
    LET lines == Split(content, "\n")
        lineCount == IF cursorLine < Len(lines) THEN cursorLine ELSE Len(lines)
        cursorPos == LineStart(lines, lineCount)
                     + (IF cursorLine < Len(lines) THEN Len(lines[cursorLine + 1]) \div 2 ELSE 0)
        semicolonPositions == SemicolonsFrom(content, 1)
    IN
    IF Len(semicolonPositions) = 0 THEN <<>>
    ELSE
    LET hit == SegmentAt(content, semicolonPositions, cursorPos, 1, 0)
        n == Len(semicolonPositions)
        lastSemi == semicolonPositions[n]
        remaining == TrimSpace(SubSeq(content, lastSemi + 2, Len(content)))
        prevStart == IF n > 1 THEN semicolonPositions[n - 1] + 1 ELSE 0
    IN
    IF hit # Nil THEN hit.query
    ELSE IF remaining = <<>>
         THEN TrimSpace(TrimSuffix(
                  TrimSpace(SubSeq(content, prevStart + 1, lastSemi + 1)), <<";">>))
         ELSE <<>>

getQueryUnderCursor == getQueryUnderCursorAt(textarea.value, textarea.row)

(***************************************************************************)
(* The statement generators, over the Model's state as the Go methods are: *)
(* generateUpdateSQL, generateDeleteSQL, generateInsertSQL.  Field and     *)
(* column indices are 0-based as in the code.                              *)
(***************************************************************************)
\* mutant: the IsEditable flag of the metadata is not read
Editable_FlagIgnored == detailView # Nil /\ queryMeta # Nil

Editable == detailView # Nil /\ queryMeta # Nil /\ queryMeta.IsEditable

QuotedIdent(q, name) == q \o name \o q

\* mutant: a field counts as changed only when its text differs
valueChanged_TextOnly(i) ==
    detailView.inputs[i + 1] # detailView.originalValues[i + 1].Value

\* whether field i differs from the row: both the text and the NULL state
\* are compared
valueChanged(i) ==
    LET newVal == detailView.inputs[i + 1]
        newIsNull == detailView.isNull[i + 1]
        origVal == detailView.originalValues[i + 1]
    IN  newVal # origVal.Value \/ newIsNull # origVal.IsNull

\* the "col = value" clauses of the fields i, i+1, ... that changed
RECURSIVE setClausesFrom(_)
setClausesFrom(i) ==
    IF i >= Len(detailView.inputs) THEN <<>>
    ELSE LET newVal == detailView.inputs[i + 1]
             newIsNull == detailView.isNull[i + 1]
             formattedVal == formatValueForSQL(newVal, newIsNull,
                                               detailView.columnTypes[i + 1], dbType)
         IN  (IF valueChanged(i)
              THEN <<QuotedIdent(quoteIdentifier(dbType), result.Columns[i + 1])
                     \o <<" ","="," ">> \o formattedVal>>
              ELSE <<>>)
             \o setClausesFrom(i + 1)

\* mutant: the WHERE clause takes the id from the id field as edited
formattedID_Edited ==
    formatValueForSQL(detailView.inputs[queryMeta.IDIndex + 1],
                      detailView.isNull[queryMeta.IDIndex + 1],
                      detailView.columnTypes[queryMeta.IDIndex + 1], dbType)

\* the id literal of the WHERE clause of UPDATE and DELETE
formattedID ==
    formatValueForSQL(detailView.originalValues[queryMeta.IDIndex + 1].Value, FALSE,
                      detailView.columnTypes[queryMeta.IDIndex + 1], dbType)

generateUpdateSQL ==
    IF ~Editable THEN <<>>
    ELSE LET q == quoteIdentifier(dbType)
             setClauses == setClausesFrom(0)
         IN  IF Len(setClauses) = 0 THEN <<>>
             ELSE <<"U","P","D","A","T","E"," ">> \o QuotedIdent(q, queryMeta.TableName)
                  \o <<" ","S","E","T"," ">> \o Join(setClauses, <<",", " ">>)
                  \o <<" ","W","H","E","R","E"," ">> \o QuotedIdent(q, queryMeta.IDColumn)
                  \o <<" ","="," ">> \o formattedID

generateDeleteSQL ==
    IF ~Editable THEN <<>>
    ELSE LET q == quoteIdentifier(dbType) IN
         <<"D","E","L","E","T","E"," ","F","R","O","M"," ">> \o QuotedIdent(q, queryMeta.TableName)
         \o <<" ","W","H","E","R","E"," ">> \o QuotedIdent(q, queryMeta.IDColumn)
         \o <<" ","="," ">> \o formattedID

\* mutant: the id column is not skipped
RECURSIVE insertFieldsFrom_All(_)
insertFieldsFrom_All(i) ==
    IF i >= Len(detailView.inputs) THEN <<>>
    ELSE <<i>> \o insertFieldsFrom_All(i + 1)

\* the indices, in order, of the fields that generateInsertSQL does not skip
RECURSIVE insertFieldsFrom(_)
insertFieldsFrom(i) ==
    IF i >= Len(detailView.inputs) THEN <<>>
    ELSE (IF i = queryMeta.IDIndex THEN <<>> ELSE <<i>>) \o insertFieldsFrom(i + 1)

generateInsertSQL ==
    IF ~Editable THEN <<>>
    ELSE LET q == quoteIdentifier(dbType)
             fields == insertFieldsFrom(0)
             columns == [k \in 1..Len(fields) |->
                            QuotedIdent(q, result.Columns[fields[k] + 1])]
             values == [k \in 1..Len(fields) |->
                           formatValueForSQL(detailView.inputs[fields[k] + 1],
                                             detailView.isNull[fields[k] + 1],
                                             detailView.columnTypes[fields[k] + 1], dbType)]
         IN  <<"I","N","S","E","R","T"," ","I","N","T","O"," ">> \o QuotedIdent(q, queryMeta.TableName)
             \o <<" ", "(">> \o Join(columns, <<",", " ">>)
             \o <<")"," ","V","A","L","U","E","S"," ","(">> \o Join(values, <<",", " ">>) \o <<")">>

(***************************************************************************)
(* appendQueryToTextarea.  textarea.SetValue leaves the cursor at the end  *)
(* of the new content and CursorEnd keeps it on that line, so the cursor's *)
(* line is the last line.  Saving to the file changes nothing modelled.    *)
(***************************************************************************)
LastLine(content) == Len(Split(content, "\n")) - 1

appendQueryToTextarea(sql) ==
    LET current == textarea.value
        trimmed == TrimRight(current, {" ", "\t", "\n"})
        terminated == IF HasSuffix(trimmed, <<";">>) THEN trimmed ELSE trimmed \o <<";">>
        newContent == IF TrimSpace(current) = <<>>
                      THEN sql \o <<";">>
                      ELSE terminated \o <<"\n", "\n">> \o sql \o <<";">>
    IN  [value |-> newContent, row |-> LastLine(newContent)]

(***************************************************************************)
(* splitter.go: SplitStatements.  Indices are 0-based as in the code; each *)
(* inner loop is an operator that returns the index at which it stops, and *)
(* the bytes it wrote to current are sql[start:stop].                      *)
(***************************************************************************)
\* sql[a:b]
Slice(sql, a, b) == SubSeq(sql, a + 1, b)

\* the byte sql[i]
At(sql, i) == sql[i + 1]

\* the line-comment loop and the newline after it: i is at the second dash
RECURSIVE LineCommentEnd(_, _)
LineCommentEnd(sql, i) ==
    IF i < Len(sql) /\ At(sql, i) # "\n" THEN LineCommentEnd(sql, i + 1)
    ELSE IF i < Len(sql) THEN i + 1 ELSE i

\* the block-comment loop: i is after the opening slash and star
RECURSIVE BlockCommentEnd(_, _)
BlockCommentEnd(sql, i) ==
    IF i >= Len(sql) THEN i
    ELSE IF At(sql, i) = "*" /\ i + 1 < Len(sql) /\ At(sql, i + 1) = "/" THEN i + 2
    ELSE BlockCommentEnd(sql, i + 1)

\* mutant: the single-quote loop without the backslash escape
RECURSIVE SingleQuoteEnd_NoBackslash(_, _)
SingleQuoteEnd_NoBackslash(sql, i) ==
    IF i >= Len(sql) THEN i
    ELSE IF At(sql, i) = "'"
         THEN IF i + 1 < Len(sql) /\ At(sql, i + 1) = "'"
              THEN SingleQuoteEnd_NoBackslash(sql, i + 2)
              ELSE i + 1
    ELSE SingleQuoteEnd_NoBackslash(sql, i + 1)

\* the single-quote loop: i is after the opening quote
RECURSIVE SingleQuoteEnd(_, _)
SingleQuoteEnd(sql, i) ==
    IF i >= Len(sql) THEN i
    ELSE IF At(sql, i) = "'"
         THEN IF i + 1 < Len(sql) /\ At(sql, i + 1) = "'"
              THEN SingleQuoteEnd(sql, i + 2)
              ELSE i + 1
    ELSE IF At(sql, i) = "\\" /\ i + 1 < Len(sql) THEN SingleQuoteEnd(sql, i + 2)
    ELSE SingleQuoteEnd(sql, i + 1)

\* the double-quote loop: i is after the opening quote
RECURSIVE DoubleQuoteEnd(_, _)
DoubleQuoteEnd(sql, i) ==
    IF i >= Len(sql) THEN i
    ELSE IF At(sql, i) = "\""
         THEN IF i + 1 < Len(sql) /\ At(sql, i + 1) = "\""
              THEN DoubleQuoteEnd(sql, i + 2)
              ELSE i + 1
    ELSE DoubleQuoteEnd(sql, i + 1)

\* mutant: the trimmed text is appended even when it is empty
Emit_KeepBlank(statements, current) == Append(statements, TrimSpace(current))

\* statements with current appended when it is not blank
Emit(statements, current) ==
    LET stmt == TrimSpace(current) IN
    IF stmt # <<>> THEN Append(statements, stmt) ELSE statements

\* the end of the run of regular characters from index i: the index of the
\* next character that one of the tests of the loop looks at, or len(sql)
RegularEnd(sql, i) ==
    LET stops == {j \in i..(Len(sql) - 1) : At(sql, j) \in {"-", "/", "'", "\"", ";"}}
    IN  IF stops = {} THEN (IF i > Len(sql) THEN i ELSE Len(sql))
        ELSE CHOOSE j \in stops : \A k \in stops : j <= k

\* the outer loop from index i with the builder current, and the final emit;
\* a run of regular characters is written to the builder in one step
RECURSIVE SplitLoop(_, _, _, _)
SplitLoop(sql, i, current, statements) ==
    LET n == Len(sql) IN
    IF i >= n THEN Emit(statements, current)
    ELSE
    LET ch == At(sql, i) IN
    IF ch = "-" /\ i + 1 < n /\ At(sql, i + 1) = "-"
    THEN LET stop == LineCommentEnd(sql, i + 1)
         IN  SplitLoop(sql, stop, current \o Slice(sql, i, stop), statements)
    ELSE IF ch = "/" /\ i + 1 < n /\ At(sql, i + 1) = "*"
    THEN LET stop == BlockCommentEnd(sql, i + 2)
         IN  SplitLoop(sql, stop, current \o Slice(sql, i, stop), statements)
    ELSE IF ch = "'"
    THEN LET stop == SingleQuoteEnd(sql, i + 1)
         IN  SplitLoop(sql, stop, current \o Slice(sql, i, stop), statements)
    ELSE IF ch = "\""
    THEN LET stop == DoubleQuoteEnd(sql, i + 1)
         IN  SplitLoop(sql, stop, current \o Slice(sql, i, stop), statements)
    ELSE IF ch = ";"
    THEN SplitLoop(sql, i + 1, <<>>, Emit(statements, current))
    ELSE LET stop == RegularEnd(sql, i + 1)
         IN  SplitLoop(sql, stop, current \o Slice(sql, i, stop), statements)

SplitStatements(sql) == SplitLoop(sql, 0, <<>>, <<>>)

\* unicode.IsLetter on the characters of the model
IsLetter(c) == \E k \in 1..26 : UpperLetters[k] = c \/ LowerLetters[k] = c

\* the keywords of IsSelectStatement
RowKeywords ==
    {<<"S","E","L","E","C","T">>,
     <<"W","I","T","H">>,
     <<"S","H","O","W">>,
     <<"D","E","S","C","R","I","B","E">>,
     <<"D","E","S","C">>,
     <<"E","X","P","L","A","I","N">>,
     <<"T","A","B","L","E">>,
     <<"V","A","L","U","E","S">>,
     <<"P","R","A","G","M","A">>}

IsSelectStatement(stmt) ==
    LET trimmed == TrimLeft(stmt, Space)
        upper == ToUpper(trimmed)
    IN  \E kw \in RowKeywords :
            /\ HasPrefix(upper, kw)
            /\ \/ Len(upper) = Len(kw)
               \/ ~IsLetter(upper[Len(kw) + 1])

(***************************************************************************)
(* categorizeColumnType and its keyword lists.  A list is searched for any *)
(* keyword that occurs in the name, so its order does not matter and it is *)
(* a set here.                                                             *)
(***************************************************************************)
numericTypes ==
    {<<"I","N","T">>, <<"I","N","T","E","G","E","R">>, <<"S","M","A","L","L","I","N","T">>,
     <<"B","I","G","I","N","T">>, <<"T","I","N","Y","I","N","T">>, <<"M","E","D","I","U","M","I","N","T">>,
     <<"D","E","C","I","M","A","L">>, <<"N","U","M","E","R","I","C">>,
     <<"F","L","O","A","T">>, <<"D","O","U","B","L","E">>, <<"R","E","A","L">>,
     <<"I","N","T","2">>, <<"I","N","T","4">>, <<"I","N","T","8">>,
     <<"F","L","O","A","T","4">>, <<"F","L","O","A","T","8">>, <<"S","E","R","I","A","L">>,
     <<"B","I","G","S","E","R","I","A","L">>, <<"S","M","A","L","L","S","E","R","I","A","L">>,
     <<"M","O","N","E","Y">>}

booleanTypes ==
    {<<"B","O","O","L">>, <<"B","O","O","L","E","A","N">>, <<"B","I","T">>}

dateTypes ==
    {<<"D","A","T","E">>, <<"T","I","M","E">>, <<"D","A","T","E","T","I","M","E">>,
     <<"T","I","M","E","S","T","A","M","P">>, <<"T","I","M","E","S","T","A","M","P","T","Z">>,
     <<"T","I","M","E","T","Z">>, <<"Y","E","A","R">>, <<"I","N","T","E","R","V","A","L">>}

blobTypes ==
    {<<"B","L","O","B">>, <<"B","I","N","A","R","Y">>, <<"V","A","R","B","I","N","A","R","Y">>,
     <<"B","Y","T","E","A">>, <<"T","I","N","Y","B","L","O","B">>, <<"M","E","D","I","U","M","B","L","O","B">>,
     <<"L","O","N","G","B","L","O","B">>}

textTypes ==
    {<<"C","H","A","R">>, <<"V","A","R","C","H","A","R">>, <<"T","E","X","T">>,
     <<"S","T","R","I","N","G">>, <<"T","I","N","Y","T","E","X","T">>,
     <<"M","E","D","I","U","M","T","E","X","T">>, <<"L","O","N","G","T","E","X","T">>,
     <<"N","C","H","A","R">>, <<"N","V","A","R","C","H","A","R">>, <<"N","T","E","X","T">>,
     <<"U","U","I","D">>, <<"J","S","O","N">>, <<"J","S","O","N","B">>,
     <<"X","M","L">>, <<"E","N","U","M">>, <<"S","E","T">>}

\* mutant: the name is matched as the driver spells it
categorizeColumnType_NoUpper(dbTypeName) ==
    LET typeName == dbTypeName IN
    IF \E nt \in numericTypes : Contains(typeName, nt) THEN ColTypeNumeric
    ELSE IF \E bt \in booleanTypes : Contains(typeName, bt) THEN ColTypeBoolean
    ELSE IF \E dt \in dateTypes : Contains(typeName, dt) THEN ColTypeDatetime
    ELSE IF \E bt \in blobTypes : Contains(typeName, bt) THEN ColTypeBlob
    ELSE IF \E tt \in textTypes : Contains(typeName, tt) THEN ColTypeText
    ELSE ColTypeUnknown

categorizeColumnType(dbTypeName) ==
    LET typeName == ToUpper(dbTypeName) IN
    IF \E nt \in numericTypes : Contains(typeName, nt) THEN ColTypeNumeric
    ELSE IF \E bt \in booleanTypes : Contains(typeName, bt) THEN ColTypeBoolean
    ELSE IF \E dt \in dateTypes : Contains(typeName, dt) THEN ColTypeDatetime
    ELSE IF \E bt \in blobTypes : Contains(typeName, bt) THEN ColTypeBlob
    ELSE IF \E tt \in textTypes : Contains(typeName, tt) THEN ColTypeText
    ELSE ColTypeUnknown

(***************************************************************************)
(* crypto.go and config.go: the vault.  Keys, salts and ciphertexts are    *)
(* symbolic: a derived key names the password and the salt it was derived  *)
(* from, a ciphertext names the key and the plaintext it was sealed with   *)
(* (the random nonce is left out), and decryption succeeds with that key   *)
(* only.  A map from names is a set of records with distinct names.  The   *)
(* YAML file holds what SaveConfig marshalled; writes do not fail.         *)
(***************************************************************************)
DeriveKey(password, salt) == <<"argon2id", password, salt>>

Encrypt(key, plaintext) == <<"aes-gcm", key, plaintext>>

Decrypt(key, ciphertextB64) ==
    IF ciphertextB64 = <<>> THEN [plaintext |-> <<>>, err |-> "ErrInvalidData"]
    ELSE IF ciphertextB64[2] = key THEN [plaintext |-> ciphertextB64[3], err |-> ""]
    ELSE [plaintext |-> <<>>, err |-> "ErrDecryptionFailed"]

UnlockVault(password, salt, encryptedDataKey) ==
    LET opened == Decrypt(DeriveKey(password, salt), encryptedDataKey)
    IN  [dataKey |-> opened.plaintext, err |-> opened.err]

NewVault == [dataKey |-> <<>>, connections |-> {}, isUnlocked |-> FALSE]

\* Vault.Lock
Lock(vault) == [dataKey |-> <<>>, connections |-> {}, isUnlocked |-> FALSE]

EmptyConfig == [Salt |-> <<>>, EncryptedDataKey |-> <<>>, Connections |-> {}]

\* Config.SetSalt and Config.GetSalt: the salt in base64 and back
SetSalt(c, salt) == [c EXCEPT !.Salt = <<"base64", salt>>]

GetSalt(c) ==
    IF c.Salt = <<>> THEN [salt |-> 0, err |-> "ErrVaultNotConfigured"]
    ELSE [salt |-> c.Salt[2], err |-> ""]

HasConnection(c, name) == \E conn \in c.Connections : conn.name = name

\* a < b in the byte order of sort.Strings, for texts of lower-case letters
RECURSIVE StringLess(_, _)
StringLess(a, b) ==
    IF b = <<>> THEN FALSE
    ELSE IF a = <<>> THEN TRUE
    ELSE LET rank(c) == CHOOSE k \in 0..26 :
                            \/ k > 0 /\ LowerLetters[k] = c
                            \/ k = 0 /\ \A j \in 1..26 : LowerLetters[j] # c
         IN  IF rank(a[1]) # rank(b[1]) THEN rank(a[1]) < rank(b[1])
             ELSE StringLess(Tail(a), Tail(b))

RECURSIVE SortStrings(_)
SortStrings(names) ==
    IF names = {} THEN <<>>
    ELSE LET least == CHOOSE n \in names : \A o \in names \ {n} : StringLess(n, o)
         IN  <<least>> \o SortStrings(names \ {least})

ConnectionNames(c) == SortStrings({conn.name : conn \in c.Connections})

NewVaultManager == [config |-> Nil, vault |-> NewVault]

\* VaultManager.LoadConfig: the file, or an empty Config when there is none
LoadConfig(vm, file) ==
    [vm EXCEPT !.config = IF file = Nil THEN EmptyConfig ELSE file]

HasVault(vm) ==
    /\ vm.config # Nil
    /\ vm.config.Salt # <<>>
    /\ vm.config.EncryptedDataKey # <<>>

\* mutant: the connections are not decrypted into memory
Unlock_NoConnections(vm, file, password) ==
    IF vm.config = Nil THEN [vm |-> vm, file |-> file, err |-> "ErrVaultNotConfigured"]
    ELSE IF GetSalt(vm.config).err # ""
    THEN [vm |-> vm, file |-> file, err |-> GetSalt(vm.config).err]
    ELSE
    LET unlocked == UnlockVault(password, GetSalt(vm.config).salt, vm.config.EncryptedDataKey)
    IN  IF unlocked.err # "" THEN [vm |-> vm, file |-> file, err |-> unlocked.err]
        ELSE [vm |-> [vm EXCEPT !.vault.dataKey = unlocked.dataKey,
                                !.vault.isUnlocked = TRUE],
              file |-> file, err |-> ""]

\* VaultManager.Unlock
Unlock(vm, file, password) ==
    IF vm.config = Nil THEN [vm |-> vm, file |-> file, err |-> "ErrVaultNotConfigured"]
    ELSE IF GetSalt(vm.config).err # ""
    THEN [vm |-> vm, file |-> file, err |-> GetSalt(vm.config).err]
    ELSE
    LET unlocked == UnlockVault(password, GetSalt(vm.config).salt, vm.config.EncryptedDataKey)
        names == {conn.name : conn \in vm.config.Connections}
        decrypted == {[name |-> conn.name,
                       dsn |-> Decrypt(unlocked.dataKey, conn.EncryptedDSN).plaintext] :
                      conn \in vm.config.Connections}
    IN  IF unlocked.err # "" THEN [vm |-> vm, file |-> file, err |-> unlocked.err]
        ELSE IF \E conn \in vm.config.Connections :
                    Decrypt(unlocked.dataKey, conn.EncryptedDSN).err # ""
        THEN [vm |-> [vm EXCEPT !.vault = Lock(vm.vault)], file |-> file,
              err |-> "failed to decrypt connection"]
        ELSE [vm |-> [vm EXCEPT
                        !.vault.dataKey = unlocked.dataKey,
                        !.vault.isUnlocked = TRUE,
                        !.vault.connections =
                            {c \in @ : c.name \notin names} \cup decrypted],
              file |-> file, err |-> ""]

\* VaultManager.InitializeWithPassword; salt and dataKey are the random
\* bytes of GenerateSalt and GenerateDataKey
InitializeWithPassword(vm, file, password, salt, dataKey) ==
    LET config == [SetSalt(IF vm.config = Nil THEN EmptyConfig ELSE vm.config, salt)
                     EXCEPT !.EncryptedDataKey = Encrypt(DeriveKey(password, salt), dataKey)]
    IN  [vm |-> [config |-> config,
                 vault |-> [vm.vault EXCEPT !.dataKey = dataKey, !.isUnlocked = TRUE]],
         file |-> config, err |-> ""]

\* VaultManager.AddConnection
AddConnection(vm, file, name, dsn, type, theme) ==
    IF ~vm.vault.isUnlocked THEN [vm |-> vm, file |-> file, err |-> "ErrVaultLocked"]
    ELSE
    LET connection == [name |-> name, EncryptedDSN |-> Encrypt(vm.vault.dataKey, dsn),
                       Type |-> type, Theme |-> theme]
        config == [vm.config EXCEPT
                     !.Connections = {c \in @ : c.name # name} \cup {connection}]
        vault == [vm.vault EXCEPT
                    !.connections = {c \in @ : c.name # name}
                                    \cup {[name |-> name, dsn |-> dsn]}]
    IN  [vm |-> [config |-> config, vault |-> vault], file |-> config, err |-> ""]

\* mutant: the lock is not tested
RemoveConnection_NoLockTest(vm, file, name) ==
    IF ~HasConnection(vm.config, name)
    THEN [vm |-> vm, file |-> file, err |-> "ErrConnectionNotFound"]
    ELSE
    LET config == [vm.config EXCEPT !.Connections = {c \in @ : c.name # name}]
        vault == [vm.vault EXCEPT !.connections = {c \in @ : c.name # name}]
    IN  [vm |-> [config |-> config, vault |-> vault], file |-> config, err |-> ""]

\* VaultManager.RemoveConnection
RemoveConnection(vm, file, name) ==
    IF ~vm.vault.isUnlocked THEN [vm |-> vm, file |-> file, err |-> "ErrVaultLocked"]
    ELSE IF ~HasConnection(vm.config, name)
    THEN [vm |-> vm, file |-> file, err |-> "ErrConnectionNotFound"]
    ELSE
    LET config == [vm.config EXCEPT !.Connections = {c \in @ : c.name # name}]
        vault == [vm.vault EXCEPT !.connections = {c \in @ : c.name # name}]
    IN  [vm |-> [config |-> config, vault |-> vault], file |-> config, err |-> ""]

\* VaultManager.GetConnection
GetConnection(vm, name) ==
    IF ~vm.vault.isUnlocked
    THEN [dsn |-> <<>>, dbType |-> <<>>, theme |-> <<>>, err |-> "ErrVaultLocked"]
    ELSE IF ~\E c \in vm.vault.connections : c.name = name
    THEN [dsn |-> <<>>, dbType |-> <<>>, theme |-> <<>>, err |-> "ErrConnectionNotFound"]
    ELSE
    LET entry == CHOOSE c \in vm.vault.connections : c.name = name
        known == HasConnection(vm.config, name)
        conn == CHOOSE c \in vm.config.Connections : c.name = name
    IN  [dsn |-> entry.dsn,
         dbType |-> IF known THEN conn.Type ELSE <<>>,
         theme |-> IF known THEN conn.Theme ELSE <<>>,
         err |-> ""]

\* VaultManager.ListConnections
ListConnections(vm) == IF vm.config = Nil THEN <<>> ELSE ConnectionNames(vm.config)

\* VaultManager.ChangePassword; salt is the random bytes of GenerateSalt
ChangePassword(vm, file, newPassword, salt) ==
    IF ~vm.vault.isUnlocked THEN [vm |-> vm, file |-> file, err |-> "ErrVaultLocked"]
    ELSE
    LET config == [SetSalt(vm.config, salt) EXCEPT
                     !.EncryptedDataKey =
                         Encrypt(DeriveKey(newPassword, salt), vm.vault.dataKey)]
    IN  [vm |-> [vm EXCEPT !.config = config], file |-> config, err |-> ""]

(***************************************************************************)
(* The state of the interactive Model while a pure function is under call, *)
(* and of the call harness while the Model runs.                           *)
(***************************************************************************)
NoArgs == [fn |-> "none"]
NoRet == [fn |-> "none", val |-> <<>>]

OtherIdle ==
    /\ connectionPicker = Nil
    /\ vaultManager = Nil
    /\ configFile = Nil
    /\ pipeRun = Nil

\* the fields of the Model that the query and results panes use, before
\* NewModel
QueryIdle ==
    /\ currentPage = 0
    /\ totalPages = 0
    /\ dbType = <<>>
    /\ textarea = [value |-> <<>>, row |-> 0]
    /\ focus = "focusQuery"
    /\ result = Nil
    /\ queryMeta = Nil
    /\ detailView = Nil
    /\ statusMessage = ""
    /\ lastQuery = <<>>
    /\ selectedRow = 0

ModelIdle == QueryIdle /\ OtherIdle

RECURSIVE CaseVariants(_)
CaseVariants(w) ==
    IF w = <<>> THEN {<<>>}
    ELSE {<<c>> \o r : c \in {ToLowerChar(Head(w)), ToUpperChar(Head(w))},
                       r \in CaseVariants(Tail(w))}

(***************************************************************************)
(* SpecCodec: formatValueForSQL called on every value text up to MaxLen    *)
(* over CodecAlphabet and on every spelling of the boolean words.          *)
(***************************************************************************)
CodecAlphabet == {"1", ".", "e", "'", " ", "x"}
BoolTexts ==
    UNION {CaseVariants(w) : w \in TrueWords \cup FalseWords}
    \cup {<<"t","r","u">>, <<"y">>, <<"2">>, <<"o","n","'">>}
CodecTexts == StringsUpTo(CodecAlphabet, MaxLen) \cup BoolTexts
CodecDialects == {Mysql, Postgres, Sqlite}

InitCodec ==
    /\ args \in [value : CodecTexts, isNull : BOOLEAN, colType : ColumnTypes,
                 dbType : CodecDialects]
    /\ ret = NoRet
    /\ ModelIdle

CallFormatValueForSQL ==
    /\ ret.fn = "none"
    /\ ret' = [fn |-> "formatValueForSQL",
               val |-> formatValueForSQL(args.value, args.isNull, args.colType, args.dbType)]
    /\ UNCHANGED <<args, modelVars>>

NextCodec == CallFormatValueForSQL

SpecCodec == InitCodec /\ [][NextCodec]_vars

(***************************************************************************)
(* SpecNumber: isValidNumber called on every text up to MaxNumLen over     *)
(* NumberAlphabet.                                                         *)
(***************************************************************************)
NumberAlphabet == {"1", ".", "e", "E", "+", "-", " ", "x"}

InitNumber ==
    /\ args \in [s : StringsUpTo(NumberAlphabet, MaxNumLen)]
    /\ ret = NoRet
    /\ ModelIdle

CallIsValidNumber ==
    /\ ret.fn = "none"
    /\ ret' = [fn |-> "isValidNumber", val |-> isValidNumber(args.s)]
    /\ UNCHANGED <<args, modelVars>>

NextNumber == CallIsValidNumber

SpecNumber == InitNumber /\ [][NextNumber]_vars

(***************************************************************************)
(* SpecSplit: SplitStatements called on every text up to MaxSplitLen over  *)
(* SplitAlphabet and on longer texts made of quotes and escapes, of        *)
(* comment marks, or of a letter, blanks and semicolons only.              *)
(***************************************************************************)
SplitAlphabet == {"a", " ", ";", "'", "\"", "-", "/", "*", "\\", "\n"}
QuoteAlphabet == {"'", "\\", ";", "\""}
CommentAlphabet == {"-", "/", "*", ";", "\n"}
PlainAlphabet == {"a", " ", ";"}
SplitTexts ==
    StringsUpTo(SplitAlphabet, MaxSplitLen)
    \cup StringsUpTo(QuoteAlphabet, MaxSplitLen + 2)
    \cup StringsUpTo(CommentAlphabet, MaxSplitLen + 2)
    \cup StringsUpTo(PlainAlphabet, MaxSplitLen + 3)

InitSplit ==
    /\ args \in [sql : SplitTexts]
    /\ ret = NoRet
    /\ ModelIdle

CallSplitStatements ==
    /\ ret.fn = "none"
    /\ ret' = [fn |-> "SplitStatements", val |-> SplitStatements(args.sql)]
    /\ UNCHANGED <<args, modelVars>>

NextSplit == CallSplitStatements

SpecSplit == InitSplit /\ [][NextSplit]_vars

(***************************************************************************)
(* SpecCursor: getQueryUnderCursor called on a Model whose buffer is any   *)
(* text up to MaxCursorLen over CursorAlphabet, with the cursor at any     *)
(* (line, column) position of the buffer.  The function reads the cursor's *)
(* line from the textarea; the column is the caller's, in args.            *)
(***************************************************************************)
CursorAlphabet == {"a", ";", " ", "\n"}

\* the (row, col) positions a cursor can take in content
CursorPositions(content) ==
    LET lines == Split(content, "\n") IN
    {p \in (0..(Len(lines) - 1)) \X (0..Len(content)) : p[2] <= Len(lines[p[1] + 1])}

InitCursor ==
    /\ currentPage = 0
    /\ totalPages = 0
    /\ OtherIdle
    /\ \E content \in StringsUpTo(CursorAlphabet, MaxCursorLen) :
         \E p \in CursorPositions(content) :
            /\ textarea = [value |-> content, row |-> p[1]]
            /\ args = [col |-> p[2]]
    /\ ret = NoRet
    /\ dbType = <<>>
    /\ focus = "focusQuery"
    /\ result = Nil
    /\ queryMeta = Nil
    /\ detailView = Nil
    /\ statusMessage = ""
    /\ lastQuery = <<>>
    /\ selectedRow = 0

CallGetQueryUnderCursor ==
    /\ ret.fn = "none"
    /\ ret' = [fn |-> "getQueryUnderCursor", val |-> getQueryUnderCursor]
    /\ UNCHANGED <<args, modelVars>>

NextCursor == CallGetQueryUnderCursor

SpecCursor == InitCursor /\ [][NextCursor]_vars

(***************************************************************************)
(* SpecEdit: the interactive Model.  NewModel loads the initial SQL; the   *)
(* user moves the cursor, executes the query under it (Ctrl+R), switches   *)
(* panes (Tab, Esc), opens the detail view on the selected row (Enter) and *)
(* there types, deletes, toggles NULL (Ctrl+N), moves between fields and   *)
(* generates UPDATE, DELETE or INSERT (F5, F6, F7), which are appended to  *)
(* the buffer.  The database is an oracle: executeQuery returns an error   *)
(* or no rows for any statement and, for a statement that starts with      *)
(* SELECT or SHOW, possibly one of ResultSets.  The scroll offsets of the views    *)
(* and the focus and blink of the widgets are rendering state and are left *)
(* out.  A text field is its text: runes are typed and deleted at its end. *)
(***************************************************************************)
InitialSQL ==
    {<<"S","E","L","E","C","T"," ","*"," ","F","R","O","M"," ","t",";">>,
     <<"s","e","l","e","c","t"," ","*"," ","f","r","o","m"," ","t",","," ","u"," ",";">>,
     <<"S","E","L","E","C","T"," ","*"," ","F","R","O","M"," ","t",";">> \o <<"\n">> \o <<"-","-"," ","x">>,
     <<"S","H","O","W"," ","t",";">>}
TypedRunes == {"1", "'", ";"}

ErrorResult == [Columns |-> <<>>, ColumnTypes |-> <<>>, Rows |-> <<>>, Error |-> TRUE]
EmptyResult == [Columns |-> <<>>, ColumnTypes |-> <<>>, Rows |-> <<>>, Error |-> FALSE]
ResultSets ==
    {[Columns |-> <<<<"i","d">>, <<"n">>, <<"b">>>>,
      ColumnTypes |-> <<ColTypeNumeric, ColTypeText, ColTypeBoolean>>,
      Rows |-> <<<<[Value |-> <<"7">>, IsNull |-> FALSE], [Value |-> <<"a">>, IsNull |-> FALSE], [Value |-> <<>>, IsNull |-> TRUE]>>>>,
      Error |-> FALSE],
     [Columns |-> <<<<"n">>, <<"I","D">>>>,
      ColumnTypes |-> <<ColTypeText, ColTypeText>>,
      Rows |-> <<<<[Value |-> <<>>, IsNull |-> FALSE], [Value |-> <<"k","'">>, IsNull |-> FALSE]>>>>,
      Error |-> FALSE]}

\* what db.Query may answer to a statement
executeQuery(query) ==
    IF \/ HasPrefix(ToUpper(TrimSpace(query)), <<"S","E","L","E","C","T">>)
       \/ HasPrefix(ToUpper(TrimSpace(query)), <<"S","H","O","W">>)
    THEN ResultSets \cup {ErrorResult, EmptyResult}
    ELSE {ErrorResult, EmptyResult}

InitEdit ==
    /\ currentPage = 0
    /\ totalPages = 0
    /\ OtherIdle
    /\ args = NoArgs
    /\ ret = NoRet
    /\ dbType \in {Mysql, Postgres}
    /\ \E initialSQL \in InitialSQL :
           textarea = [value |-> initialSQL, row |-> LastLine(initialSQL)]
    /\ focus = "focusQuery"
    /\ result = Nil
    /\ queryMeta = Nil
    /\ detailView = Nil
    /\ statusMessage = ""
    /\ lastQuery = <<>>
    /\ selectedRow = 0

InDetail == focus = "focusDetail" /\ detailView # Nil

\* the bound of the exploration: once generated statements have made the
\* buffer longer than MaxBuffer, only Ctrl+R is followed
Small == Len(textarea.value) <= MaxBuffer

\* Update, case "up"/"down" with the query pane focused: textarea.Update
\* moves the cursor one line
KeyCursorUp ==
    /\ Small
    /\ focus = "focusQuery"
    /\ textarea.row > 0
    /\ textarea' = [textarea EXCEPT !.row = @ - 1]
    /\ UNCHANGED <<callVars, pageVars, otherVars, dbType, focus, result, queryMeta, detailView,
                   statusMessage, lastQuery, selectedRow>>

KeyCursorDown ==
    /\ Small
    /\ focus = "focusQuery"
    /\ textarea.row < LastLine(textarea.value)
    /\ textarea' = [textarea EXCEPT !.row = @ + 1]
    /\ UNCHANGED <<callVars, pageVars, otherVars, dbType, focus, result, queryMeta, detailView,
                   statusMessage, lastQuery, selectedRow>>

\* Update, case "tab" outside the detail view
KeyTab ==
    /\ Small
    /\ ~InDetail
    /\ focus' = IF focus = "focusQuery" THEN "focusResults"
                ELSE IF focus = "focusResults" THEN "focusQuery" ELSE focus
    /\ UNCHANGED <<callVars, pageVars, otherVars, dbType, textarea, result, queryMeta, detailView,
                   statusMessage, lastQuery, selectedRow>>

\* Update, case "esc" outside the detail view
KeyEscape ==
    /\ Small
    /\ ~InDetail
    /\ focus' = IF focus = "focusResults" THEN "focusQuery" ELSE focus
    /\ UNCHANGED <<callVars, pageVars, otherVars, dbType, textarea, result, queryMeta, detailView,
                   statusMessage, lastQuery, selectedRow>>

\* Update, case "ctrl+r"/"f5" outside the detail view: from the results pane
\* the focus first moves to the query pane
\* Answers(query) is what the database may answer to query
ExecuteUnderCursor(Answers(_)) ==
    /\ ~InDetail
    /\ LET query == getQueryUnderCursor IN
       IF query = <<>>
       THEN /\ statusMessage' = "No query under cursor. Queries must end with ';'"
            /\ focus' = "focusQuery"
            /\ UNCHANGED <<result, queryMeta, lastQuery, selectedRow, pageVars>>
       ELSE \E res \in Answers(query) :
            /\ lastQuery' = query
            /\ result' = res
            /\ queryMeta' = parseQueryMeta(query, res)
            /\ selectedRow' = 0
            /\ currentPage' = 0
            /\ totalPages' = IF res.Error THEN totalPages
                             ELSE IF (Len(res.Rows) + pageSize - 1) \div pageSize = 0 THEN 1
                             ELSE (Len(res.Rows) + pageSize - 1) \div pageSize
            /\ statusMessage' = IF res.Error THEN "Error" ELSE "Query returned rows"
            /\ focus' = IF ~res.Error /\ Len(res.Rows) > 0 THEN "focusResults"
                        ELSE "focusQuery"
    /\ UNCHANGED <<callVars, otherVars, dbType, textarea, detailView>>

KeyCtrlR == ExecuteUnderCursor(executeQuery)

\* Update, case "enter" in the results pane: openDetailView
KeyEnter ==
    /\ focus = "focusResults"
    /\ result # Nil
    /\ Len(result.Rows) > 0
    /\ selectedRow < Len(result.Rows)
    /\ Small
    /\ LET row == result.Rows[selectedRow + 1] IN
       detailView' = [originalValues |-> row,
                      inputs |-> [i \in 1..Len(row) |->
                                    IF row[i].IsNull THEN <<>> ELSE row[i].Value],
                      isNull |-> [i \in 1..Len(row) |-> row[i].IsNull],
                      columnTypes |-> result.ColumnTypes,
                      focusedField |-> 0]
    /\ focus' = "focusDetail"
    /\ UNCHANGED <<callVars, pageVars, otherVars, dbType, textarea, result, queryMeta,
                   statusMessage, lastQuery, selectedRow>>

\* handleDetailViewKeys, case "esc"
DetailEscape ==
    /\ InDetail
    /\ focus' = "focusResults"
    /\ detailView' = Nil
    /\ UNCHANGED <<callVars, pageVars, otherVars, dbType, textarea, result, queryMeta,
                   statusMessage, lastQuery, selectedRow>>

\* what the three generating keys do with a generated statement
AppendGenerated(sql, message) ==
    /\ textarea' = appendQueryToTextarea(sql)
    /\ focus' = "focusQuery"
    /\ detailView' = Nil
    /\ statusMessage' = message

\* handleDetailViewKeys, case "f5", "ctrl+u"
DetailUpdate ==
    /\ InDetail
    /\ IF queryMeta # Nil /\ queryMeta.IsEditable
       THEN LET updateSQL == generateUpdateSQL IN
            IF updateSQL # <<>>
            THEN AppendGenerated(updateSQL, "UPDATE statement appended. Press Ctrl+R to execute.")
            ELSE /\ statusMessage' = "No changes to update."
                 /\ UNCHANGED <<textarea, focus, detailView>>
       ELSE UNCHANGED <<textarea, focus, detailView, statusMessage>>
    /\ UNCHANGED <<callVars, pageVars, otherVars, dbType, result, queryMeta, lastQuery, selectedRow>>

\* handleDetailViewKeys, case "f6", "ctrl+d"
DetailDelete ==
    /\ InDetail
    /\ IF queryMeta # Nil /\ queryMeta.IsEditable /\ generateDeleteSQL # <<>>
       THEN AppendGenerated(generateDeleteSQL, "DELETE statement appended. Press Ctrl+R to execute.")
       ELSE UNCHANGED <<textarea, focus, detailView, statusMessage>>
    /\ UNCHANGED <<callVars, pageVars, otherVars, dbType, result, queryMeta, lastQuery, selectedRow>>

\* handleDetailViewKeys, case "f7", "ctrl+i"
DetailInsert ==
    /\ InDetail
    /\ IF queryMeta # Nil /\ queryMeta.IsEditable /\ generateInsertSQL # <<>>
       THEN AppendGenerated(generateInsertSQL, "INSERT statement appended. Press Ctrl+R to execute.")
       ELSE UNCHANGED <<textarea, focus, detailView, statusMessage>>
    /\ UNCHANGED <<callVars, pageVars, otherVars, dbType, result, queryMeta, lastQuery, selectedRow>>

\* mutant: setting a field to NULL leaves its text
DetailToggleNull_KeepText ==
    /\ InDetail
    /\ IF queryMeta # Nil /\ queryMeta.IsEditable
       THEN LET idx == detailView.focusedField
                nowNull == ~detailView.isNull[idx + 1]
            IN  /\ detailView' = [detailView EXCEPT !.isNull[idx + 1] = nowNull]
                /\ statusMessage' = IF nowNull THEN "Field set to NULL"
                                    ELSE "Field set to non-NULL (empty string)"
       ELSE UNCHANGED <<detailView, statusMessage>>
    /\ UNCHANGED <<callVars, pageVars, otherVars, dbType, textarea, focus, result, queryMeta,
                   lastQuery, selectedRow>>

\* handleDetailViewKeys, case "ctrl+n"
DetailToggleNull ==
    /\ InDetail
    /\ IF queryMeta # Nil /\ queryMeta.IsEditable
       THEN LET idx == detailView.focusedField
                nowNull == ~detailView.isNull[idx + 1]
            IN  /\ detailView' = [detailView EXCEPT
                       !.isNull[idx + 1] = nowNull,
                       !.inputs[idx + 1] = IF nowNull THEN <<>> ELSE @]
                /\ statusMessage' = IF nowNull THEN "Field set to NULL"
                                    ELSE "Field set to non-NULL (empty string)"
       ELSE UNCHANGED <<detailView, statusMessage>>
    /\ UNCHANGED <<callVars, pageVars, otherVars, dbType, textarea, focus, result, queryMeta,
                   lastQuery, selectedRow>>

\* handleDetailViewKeys, case "up", "shift+tab"
DetailUp ==
    /\ InDetail
    /\ detailView' = IF detailView.focusedField > 0
                     THEN [detailView EXCEPT !.focusedField = @ - 1]
                     ELSE detailView
    /\ UNCHANGED <<callVars, pageVars, otherVars, dbType, textarea, focus, result, queryMeta,
                   statusMessage, lastQuery, selectedRow>>

\* handleDetailViewKeys, case "down", "tab"
DetailDown ==
    /\ InDetail
    /\ detailView' = IF detailView.focusedField < Len(detailView.inputs) - 1
                     THEN [detailView EXCEPT !.focusedField = @ + 1]
                     ELSE detailView
    /\ UNCHANGED <<callVars, pageVars, otherVars, dbType, textarea, focus, result, queryMeta,
                   statusMessage, lastQuery, selectedRow>>

\* the focused input after its Update and the NULL flag after the handler's
\* "typing in a NULL field makes it non-NULL"
EditFocused(newText) ==
    LET idx == detailView.focusedField IN
    detailView' = [detailView EXCEPT
        !.inputs[idx + 1] = newText,
        !.isNull[idx + 1] = IF @ /\ newText # <<>> THEN FALSE ELSE @]

\* handleDetailViewKeys, default case, a rune key
DetailType ==
    /\ InDetail
    /\ \E r \in TypedRunes :
        IF queryMeta # Nil /\ queryMeta.IsEditable
        THEN /\ Len(detailView.inputs[detailView.focusedField + 1]) < MaxInput
             /\ EditFocused(Append(detailView.inputs[detailView.focusedField + 1], r))
        ELSE UNCHANGED detailView
    /\ UNCHANGED <<callVars, pageVars, otherVars, dbType, textarea, focus, result, queryMeta,
                   statusMessage, lastQuery, selectedRow>>

\* handleDetailViewKeys, default case, the backspace key
DetailBackspace ==
    /\ InDetail
    /\ IF queryMeta # Nil /\ queryMeta.IsEditable
       THEN LET text == detailView.inputs[detailView.focusedField + 1] IN
            EditFocused(IF text = <<>> THEN text ELSE SubSeq(text, 1, Len(text) - 1))
       ELSE UNCHANGED detailView
    /\ UNCHANGED <<callVars, pageVars, otherVars, dbType, textarea, focus, result, queryMeta,
                   statusMessage, lastQuery, selectedRow>>

NextEdit ==
    \/ KeyCursorUp \/ KeyCursorDown \/ KeyTab \/ KeyEscape \/ KeyCtrlR \/ KeyEnter
    \/ DetailEscape \/ DetailUpdate \/ DetailDelete \/ DetailInsert
    \/ DetailToggleNull \/ DetailUp \/ DetailDown \/ DetailType \/ DetailBackspace

SpecEdit == InitEdit /\ [][NextEdit]_vars

(***************************************************************************)
(* SpecMeta: parseQueryMeta called on statements put together from a       *)
(* leading keyword, a select list, a FROM keyword, a table reference and   *)
(* a trailing clause, with each of MetaResults as the query result.        *)
(***************************************************************************)
MetaHeads ==
    {<<"S","E","L","E","C","T">>,
     <<" ","s","e","l","e","c","t">>,
     <<"S","e","l","e","c","t">>,
     <<"U","P","D","A","T","E">>,
     <<"S","E","L","E","C">>}
MetaSelectLists ==
    {<<" ","*">>,
     <<" ","i","d",","," ","n">>,
     <<" ","C","O","U","N","T","(","*",")">>,
     <<" ","s","u","m","(","n",")">>,
     <<" ","A","v","g","(","n",")">>,
     <<" ","m","i","n","(","n",")">>,
     <<" ","M","A","X","(","n",")">>,
     <<" ","g","r","o","u","p","_","c","o","n","c","a","t","(","n",")">>,
     <<" ","D","I","S","T","I","N","C","T"," ","n">>,
     <<" ","c","o","u","n","t","e","r">>}
MetaFroms ==
    {<<" ","F","R","O","M"," ">>,
     <<" ","f","r","o","m"," ">>,
     <<"\n","F","R","O","M"," ">>,
     <<>>}
MetaTables ==
    {<<"t">>,
     <<"BACKTICK","t","BACKTICK">>,
     <<"t"," ","A","S"," ","u">>,
     <<"BACKTICK"," ","t","BACKTICK">>,
     <<"t",","," ","u">>,
     <<"t"," ","J","O","I","N"," ","u"," ","O","N"," ","1">>,
     <<"t","\n","j","o","i","n"," ","u"," ","o","n"," ","1">>,
     <<"BACKTICK","BACKTICK">>,
     <<"t","t","\t","u">>}
MetaClauses ==
    {<<>>,
     <<" ","W","H","E","R","E"," ","a"," ","="," ","1">>,
     <<" ","w","h","e","r","e"," ","a",","," ","b">>,
     <<" ","O","R","D","E","R"," ","B","Y"," ","a",","," ","b">>,
     <<" ","L","I","M","I","T"," ","1">>,
     <<" ","G","R","O","U","P"," ","B","Y"," ","n">>,
     <<" ","h","a","v","i","n","g"," ","n">>,
     <<" ","l","i","m","i","t"," ","1"," ","W","H","E","R","E"," ","a",","," ","b"," ">>}

MetaQueries ==
    {h \o l \o f \o t \o c : h \in MetaHeads, l \in MetaSelectLists, f \in MetaFroms,
                             t \in MetaTables, c \in MetaClauses}

\* a result without rows that reports the columns cols
ResultWith(cols) ==
    [Columns |-> cols, ColumnTypes |-> [i \in 1..Len(cols) |-> ColTypeText],
     Rows |-> <<>>, Error |-> FALSE]

MetaResults ==
    {Nil, ErrorResult, EmptyResult,
     ResultWith(<<<<"i","d">>, <<"n">>>>),
     ResultWith(<<<<"n">>, <<"I","D">>>>),
     ResultWith(<<<<"n">>, <<"I","d">>, <<"i","d">>>>),
     ResultWith(<<<<"i","d","x">>, <<"n">>>>)}

InitMeta ==
    /\ args \in [query : MetaQueries, result : MetaResults]
    /\ ret = NoRet
    /\ ModelIdle

CallParseQueryMeta ==
    /\ ret.fn = "none"
    /\ ret' = [fn |-> "parseQueryMeta", val |-> parseQueryMeta(args.query, args.result)]
    /\ UNCHANGED <<args, modelVars>>

NextMeta == CallParseQueryMeta

SpecMeta == InitMeta /\ [][NextMeta]_vars

(***************************************************************************)
(* SpecClassify: categorizeColumnType called on driver type names put      *)
(* together from two of TypeNameParts, in lower or in upper case.          *)
(***************************************************************************)
TypeNameParts ==
    {<<>>, <<"i","n","t">>, <<"b","o","o","l">>, <<"b","i","t">>, <<"d","a","t","e">>,
     <<"t","i","m","e">>, <<"y","e","a","r">>, <<"b","l","o","b">>,
     <<"b","y","t","e","a">>, <<"b","i","n","a","r","y">>, <<"c","h","a","r">>,
     <<"t","e","x","t">>, <<"j","s","o","n">>, <<"s","e","t">>, <<"t","i","n","y">>,
     <<"x">>, <<"(","1",")">>, <<"m","o","n","e","y">>, <<"r","e","a","l">>,
     <<"s","e","r","i","a","l">>, <<"u","u","i","d">>, <<"e","n","u","m">>,
     <<"e","r","v","a","l">>, <<"p","o">>}

TypeNames ==
    LET lower == {a \o b : a \in TypeNameParts, b \in TypeNameParts}
    IN  lower \cup {ToUpper(n) : n \in lower}

InitClassify ==
    /\ args \in [dbTypeName : TypeNames]
    /\ ret = NoRet
    /\ ModelIdle

CallCategorizeColumnType ==
    /\ ret.fn = "none"
    /\ ret' = [fn |-> "categorizeColumnType", val |-> categorizeColumnType(args.dbTypeName)]
    /\ UNCHANGED <<args, modelVars>>

NextClassify == CallCategorizeColumnType

SpecClassify == InitClassify /\ [][NextClassify]_vars

(***************************************************************************)
(* SpecPage: the results pane.  One statement is in the buffer; Ctrl+R     *)
(* executes it and the database answers with an error or with a result of  *)
(* one of PageRowCounts rows; Tab and Esc switch panes; in the results     *)
(* pane the navigation keys move the selected row and the page.            *)
(***************************************************************************)
PageRowCounts == {0, 1, pageSize, pageSize + 1, 2 * pageSize + 1}

PageResult(n) ==
    [Columns |-> <<<<"i","d">>>>,
     ColumnTypes |-> <<ColTypeNumeric>>,
     Rows |-> [k \in 1..n |-> <<[Value |-> <<"7">>, IsNull |-> FALSE]>>],
     Error |-> FALSE]

executePaged(query) == {PageResult(n) : n \in PageRowCounts} \cup {ErrorResult}

InitPage ==
    /\ args = NoArgs
    /\ ret = NoRet
    /\ OtherIdle
    /\ dbType = Mysql
    /\ textarea = [value |-> <<"S","E","L","E","C","T"," ","*"," ","F","R","O","M"," ","t",";">>,
                   row |-> 0]
    /\ focus = "focusQuery"
    /\ result = Nil
    /\ queryMeta = Nil
    /\ detailView = Nil
    /\ statusMessage = ""
    /\ lastQuery = <<>>
    /\ selectedRow = 0
    /\ currentPage = 0
    /\ totalPages = 0

PageCtrlR == ExecuteUnderCursor(executePaged)

\* Update hands a key to handleResultsNavigation
InResults == focus = "focusResults" /\ result # Nil /\ ~InDetail

\* handleResultsNavigation, case "up", "k"
ResultsUp ==
    /\ InResults
    /\ IF selectedRow > 0
       THEN /\ selectedRow' = selectedRow - 1
            /\ currentPage' = IF selectedRow - 1 < currentPage * pageSize
                              THEN currentPage - 1 ELSE currentPage
       ELSE UNCHANGED <<selectedRow, currentPage>>
    /\ UNCHANGED <<callVars, otherVars, dbType, textarea, focus, result, queryMeta,
                   detailView, statusMessage, lastQuery, totalPages>>

\* handleResultsNavigation, case "down", "j"
ResultsDown ==
    /\ InResults
    /\ IF selectedRow < Len(result.Rows) - 1
       THEN /\ selectedRow' = selectedRow + 1
            /\ currentPage' = IF selectedRow + 1 >= (currentPage + 1) * pageSize
                              THEN currentPage + 1 ELSE currentPage
       ELSE UNCHANGED <<selectedRow, currentPage>>
    /\ UNCHANGED <<callVars, otherVars, dbType, textarea, focus, result, queryMeta,
                   detailView, statusMessage, lastQuery, totalPages>>

\* handleResultsNavigation, case "pgup", "ctrl+u"
ResultsPageUp ==
    /\ InResults
    /\ IF currentPage > 0
       THEN /\ currentPage' = currentPage - 1
            /\ selectedRow' = (currentPage - 1) * pageSize
       ELSE UNCHANGED <<selectedRow, currentPage>>
    /\ UNCHANGED <<callVars, otherVars, dbType, textarea, focus, result, queryMeta,
                   detailView, statusMessage, lastQuery, totalPages>>

\* handleResultsNavigation, case "pgdown", "ctrl+d"
ResultsPageDown ==
    /\ InResults
    /\ IF currentPage < totalPages - 1
       THEN /\ currentPage' = currentPage + 1
            /\ selectedRow' = (currentPage + 1) * pageSize
       ELSE UNCHANGED <<selectedRow, currentPage>>
    /\ UNCHANGED <<callVars, otherVars, dbType, textarea, focus, result, queryMeta,
                   detailView, statusMessage, lastQuery, totalPages>>

\* handleResultsNavigation, case "home", "g"
ResultsHome ==
    /\ InResults
    /\ currentPage' = 0
    /\ selectedRow' = 0
    /\ UNCHANGED <<callVars, otherVars, dbType, textarea, focus, result, queryMeta,
                   detailView, statusMessage, lastQuery, totalPages>>

\* handleResultsNavigation, case "end", "G"
ResultsEnd ==
    /\ InResults
    /\ currentPage' = totalPages - 1
    /\ selectedRow' = Len(result.Rows) - 1
    /\ UNCHANGED <<callVars, otherVars, dbType, textarea, focus, result, queryMeta,
                   detailView, statusMessage, lastQuery, totalPages>>

NextPage ==
    \/ PageCtrlR \/ KeyTab \/ KeyEscape
    \/ ResultsUp \/ ResultsDown \/ ResultsPageUp \/ ResultsPageDown
    \/ ResultsHome \/ ResultsEnd

SpecPage == InitPage /\ [][NextPage]_vars

(***************************************************************************)
(* SpecPipe: runPipeMode.  The standard input is a text of up to           *)
(* MaxPipeStatements pieces joined with ";"; the run trims it, splits it   *)
(* and executes the statements one by one; the database answers each with  *)
(* an error or without.  Every execution is logged with the path it took:  *)
(* "Query" for executeSelectStatement, whose rows are printed, "Exec" for  *)
(* executeNonSelectStatement.  What outputCSV and outputTable print is not *)
(* modelled beyond which statement's rows were printed.                    *)
(***************************************************************************)
PipePieces ==
    {<<"S","E","L","E","C","T"," ","1">>,
     <<"-","-"," ","c","\n","S","E","L","E","C","T"," ","1">>,
     <<" ","s","e","l","e","c","t"," ","1">>,
     <<"U","P","D","A","T","E"," ","t">>,
     <<"S","H","O","W","x">>,
     <<"/","*","c","*","/","d","e","s","c"," ","t">>}

RECURSIVE PipeTexts(_)
PipeTexts(n) ==
    IF n = 0 THEN {<<>>}
    ELSE PipeTexts(n - 1) \cup
         {t \o <<";">> \o piece : t \in PipeTexts(n - 1), piece \in PipePieces}

PipeInputs == {t \o <<"\n">> : t \in PipeTexts(MaxPipeStatements)}

InitPipe ==
    /\ args = NoArgs
    /\ ret = NoRet
    /\ QueryIdle
    /\ connectionPicker = Nil
    /\ vaultManager = Nil
    /\ configFile = Nil
    /\ \E input \in PipeInputs :
           pipeRun = [stdin |-> input, pc |-> "read", statements |-> <<>>, i |-> 0,
                      executed |-> <<>>, stdout |-> <<>>, hasError |-> FALSE,
                      exit |-> -1]

\* runPipeMode up to the loop: read, trim, split
PipeRead ==
    /\ pipeRun # Nil /\ pipeRun.pc = "read"
    /\ LET inputStr == TrimSpace(pipeRun.stdin)
           statements == SplitStatements(inputStr)
       IN  pipeRun' =
               IF inputStr = <<>> \/ Len(statements) = 0
               THEN [pipeRun EXCEPT !.pc = "exited", !.exit = 1]
               ELSE [pipeRun EXCEPT !.pc = "loop", !.statements = statements]
    /\ UNCHANGED <<callVars, modelVarsButPipe>>

\* one iteration of the loop over the statements: the database answers with
\* an error (failed) or not
PipeExecute ==
    /\ pipeRun # Nil /\ pipeRun.pc = "loop"
    /\ pipeRun.i < Len(pipeRun.statements)
    /\ \E failed \in BOOLEAN :
        LET stmt == pipeRun.statements[pipeRun.i + 1]
            path == IF IsSelectStatement(stmt) THEN "Query" ELSE "Exec"
        IN  pipeRun' = [pipeRun EXCEPT
                !.i = @ + 1,
                !.executed = Append(@, [stmt |-> stmt, path |-> path, failed |-> failed]),
                !.stdout = IF path = "Query" /\ ~failed THEN Append(@, pipeRun.i) ELSE @,
                !.hasError = @ \/ failed]
    /\ UNCHANGED <<callVars, modelVarsButPipe>>

\* the end of runPipeMode
PipeExit ==
    /\ pipeRun # Nil /\ pipeRun.pc = "loop"
    /\ pipeRun.i >= Len(pipeRun.statements)
    /\ pipeRun' = [pipeRun EXCEPT !.pc = "exited",
                                  !.exit = IF pipeRun.hasError THEN 1 ELSE 0]
    /\ UNCHANGED <<callVars, modelVarsButPipe>>

NextPipe == PipeRead \/ PipeExecute \/ PipeExit

SpecPipe == InitPipe /\ [][NextPipe]_vars

(***************************************************************************)
(* SpecVault: one VaultManager and the config file.  The vault is created  *)
(* once (the callers initialise only when HasVault is false), then locked, *)
(* unlocked, read, changed and reloaded from the file in any order; every  *)
(* call leaves its name, its arguments and what it returned in ret.        *)
(***************************************************************************)
VaultPasswords == {<<"p">>, <<"q">>}
VaultNames == {<<"a">>, <<"b">>}
VaultDSNs == {<<"x">>, <<"y">>}
Salts == {1, 2}
DataKeys == {<<"key", 1>>, <<"key", 2>>}

InitVault ==
    /\ args = NoArgs
    /\ ret = NoRet
    /\ QueryIdle
    /\ connectionPicker = Nil
    /\ pipeRun = Nil
    /\ configFile = Nil
    /\ vaultManager = LoadConfig(NewVaultManager, Nil)

\* what a call of the manager leaves behind
Returned(out) ==
    /\ vaultManager' = out.vm
    /\ configFile' = out.file
    /\ UNCHANGED <<args, dbType, textarea, focus, result, queryMeta, detailView,
                   statusMessage, lastQuery, selectedRow, pageVars,
                   connectionPicker, pipeRun>>

CallInitializeWithPassword ==
    /\ ~HasVault(vaultManager)
    /\ \E password \in VaultPasswords, salt \in Salts, dataKey \in DataKeys :
        LET out == InitializeWithPassword(vaultManager, configFile, password, salt, dataKey)
        IN  /\ ret' = [fn |-> "InitializeWithPassword", password |-> password,
                       err |-> out.err]
            /\ Returned(out)

CallUnlock ==
    \E password \in VaultPasswords :
        LET out == Unlock(vaultManager, configFile, password)
        IN  /\ ret' = [fn |-> "Unlock", password |-> password, err |-> out.err]
            /\ Returned(out)

CallLock ==
    /\ ret' = [fn |-> "Lock", err |-> ""]
    /\ Returned([vm |-> [vaultManager EXCEPT !.vault = Lock(@)], file |-> configFile])

CallAddConnection ==
    \E name \in VaultNames, dsn \in VaultDSNs :
        LET out == AddConnection(vaultManager, configFile, name, dsn, Mysql, <<>>)
        IN  /\ ret' = [fn |-> "AddConnection", name |-> name, dsn |-> dsn,
                       err |-> out.err]
            /\ Returned(out)

CallRemoveConnection ==
    \E name \in VaultNames :
        LET out == RemoveConnection(vaultManager, configFile, name)
        IN  /\ ret' = [fn |-> "RemoveConnection", name |-> name, err |-> out.err]
            /\ Returned(out)

CallGetConnection ==
    \E name \in VaultNames :
        LET got == GetConnection(vaultManager, name)
        IN  /\ ret' = [fn |-> "GetConnection", name |-> name, dsn |-> got.dsn,
                       err |-> got.err]
            /\ Returned([vm |-> vaultManager, file |-> configFile])

CallChangePassword ==
    \E newPassword \in VaultPasswords, salt \in Salts :
        LET out == ChangePassword(vaultManager, configFile, newPassword, salt)
        IN  /\ ret' = [fn |-> "ChangePassword", password |-> newPassword,
                       err |-> out.err]
            /\ Returned(out)

\* a new process: NewVaultManager and LoadConfig
Reload ==
    /\ ret' = [fn |-> "LoadConfig", err |-> ""]
    /\ Returned([vm |-> LoadConfig(NewVaultManager, configFile), file |-> configFile])

NextVault ==
    \/ CallInitializeWithPassword \/ CallUnlock \/ CallLock
    \/ CallAddConnection \/ CallRemoveConnection \/ CallGetConnection
    \/ CallChangePassword \/ Reload

SpecVault == InitVault /\ [][NextVault]_vars

(***************************************************************************)
(* SpecPicker: the connection picker from the end of the first-time setup  *)
(* (the vault was just created and is unlocked, no connection is stored,   *)
(* the picker asks for the first name): the keys of the add steps (name,   *)
(* DSN, type, theme), of the list and of the delete confirmation.  The     *)
(* fields that no handler has assigned yet hold their zero values.         *)
(* switchConnection, which is not part of these files, either fails or     *)
(* succeeds.                                                               *)
(***************************************************************************)
ThemeNames ==
    <<<<"d","e","f","a","u","l","t">>,
      <<"c","a","t","p","p","u","c","c","i","n">>,
      <<"d","r","a","c","u","l","a">>,
      <<"f","o","r","e","s","t">>,
      <<"g","r","u","v","b","o","x">>,
      <<"m","o","n","o","k","a","i">>,
      <<"n","o","r","d">>,
      <<"o","c","e","a","n">>,
      <<"s","o","l","a","r","i","z","e","d">>,
      <<"t","o","k","y","o","-","n","i","g","h","t">>,
      <<"p","r","o","d","u","c","t","i","o","n">>>>

DefaultThemeName == ThemeNames[1]

PickerTypes == <<Mysql, Postgres, Sqlite>>

NameRunes == {"a", "b", " "}
DSNRunes == {"/", "x"}
PickerPassword == <<"p","a","s","s","w","o","r","d">>

InitPicker ==
    /\ args = NoArgs
    /\ ret = NoRet
    /\ QueryIdle
    /\ pipeRun = Nil
    /\ LET created == InitializeWithPassword(LoadConfig(NewVaultManager, Nil), Nil,
                                             PickerPassword, 1, <<"key", 1>>)
       IN  /\ vaultManager = created.vm
           /\ configFile = created.file
    /\ connectionPicker =
         [mode |-> "PickerModeAddName", connections |-> <<>>, selectedIdx |-> 0,
          scrollOffset |-> 0, newConnName |-> <<>>, newConnDSN |-> <<>>,
          newConnType |-> <<>>, newConnTheme |-> <<>>, themeIdx |-> 0,
          errorMessage |-> "", passwordInput |-> <<>>, confirmPasswordInput |-> <<>>]

\* handleConnectionPickerKeys: the handler of the picker's mode
InPickerMode(mode) == connectionPicker # Nil /\ connectionPicker.mode = mode

\* what a key that changes only the picker leaves alone
PickerOnly ==
    UNCHANGED <<callVars, dbType, textarea, focus, result, queryMeta, detailView,
                statusMessage, lastQuery, selectedRow, pageVars, vaultManager,
                configFile, pipeRun>>

closeConnectionPicker(message) ==
    /\ focus' = "focusQuery"
    /\ connectionPicker' = Nil
    /\ statusMessage' = message
    /\ UNCHANGED <<callVars, dbType, textarea, result, queryMeta, detailView,
                   lastQuery, selectedRow, pageVars, vaultManager, configFile, pipeRun>>

\* handleAddNameMode
AddNameEsc ==
    /\ InPickerMode("PickerModeAddName")
    /\ connectionPicker' = [connectionPicker EXCEPT !.mode = "PickerModeList",
                                                    !.errorMessage = ""]
    /\ PickerOnly

AddNameEnter ==
    /\ InPickerMode("PickerModeAddName")
    /\ LET name == TrimSpace(connectionPicker.newConnName) IN
       connectionPicker' =
         IF name = <<>>
         THEN [connectionPicker EXCEPT !.errorMessage = "Name is required"]
         ELSE IF \E k \in 1..Len(connectionPicker.connections) :
                     connectionPicker.connections[k] = name
         THEN [connectionPicker EXCEPT !.errorMessage = "already exists"]
         ELSE [connectionPicker EXCEPT !.newConnName = name,
                                       !.mode = "PickerModeAddDSN",
                                       !.errorMessage = ""]
    /\ PickerOnly

AddNameBackspace ==
    /\ InPickerMode("PickerModeAddName")
    /\ connectionPicker' =
         IF Len(connectionPicker.newConnName) > 0
         THEN [connectionPicker EXCEPT
                 !.newConnName = SubSeq(@, 1, Len(@) - 1)]
         ELSE connectionPicker
    /\ PickerOnly

AddNameRune ==
    /\ InPickerMode("PickerModeAddName")
    /\ Len(connectionPicker.newConnName) < MaxTyped
    /\ \E r \in NameRunes :
           connectionPicker' = [connectionPicker EXCEPT !.newConnName = @ \o <<r>>]
    /\ PickerOnly

\* handleAddDSNMode
AddDSNEsc ==
    /\ InPickerMode("PickerModeAddDSN")
    /\ connectionPicker' = [connectionPicker EXCEPT !.mode = "PickerModeAddName",
                                                    !.errorMessage = ""]
    /\ PickerOnly

AddDSNEnter ==
    /\ InPickerMode("PickerModeAddDSN")
    /\ LET dsn == TrimSpace(connectionPicker.newConnDSN) IN
       connectionPicker' =
         IF dsn = <<>>
         THEN [connectionPicker EXCEPT !.errorMessage = "DSN is required"]
         ELSE [connectionPicker EXCEPT !.newConnDSN = dsn,
                                       !.newConnType = detectDBType(dsn),
                                       !.mode = "PickerModeAddType",
                                       !.errorMessage = ""]
    /\ PickerOnly

AddDSNBackspace ==
    /\ InPickerMode("PickerModeAddDSN")
    /\ connectionPicker' =
         IF Len(connectionPicker.newConnDSN) > 0
         THEN [connectionPicker EXCEPT !.newConnDSN = SubSeq(@, 1, Len(@) - 1)]
         ELSE connectionPicker
    /\ PickerOnly

AddDSNRune ==
    /\ InPickerMode("PickerModeAddDSN")
    /\ Len(connectionPicker.newConnDSN) < MaxTyped
    /\ \E r \in DSNRunes :
           connectionPicker' = [connectionPicker EXCEPT !.newConnDSN = @ \o <<r>>]
    /\ PickerOnly

\* handleAddTypeMode: the 0-based place of newConnType in types, 0 if absent
currentIdx ==
    IF \E i \in 1..Len(PickerTypes) : PickerTypes[i] = connectionPicker.newConnType
    THEN (CHOOSE i \in 1..Len(PickerTypes) :
              PickerTypes[i] = connectionPicker.newConnType) - 1
    ELSE 0

AddTypeEsc ==
    /\ InPickerMode("PickerModeAddType")
    /\ connectionPicker' = [connectionPicker EXCEPT !.mode = "PickerModeAddDSN",
                                                    !.errorMessage = ""]
    /\ PickerOnly

AddTypeEnter ==
    /\ InPickerMode("PickerModeAddType")
    /\ connectionPicker' = [connectionPicker EXCEPT !.mode = "PickerModeAddTheme",
                                                    !.themeIdx = 0,
                                                    !.errorMessage = ""]
    /\ PickerOnly

AddTypeLeft ==
    /\ InPickerMode("PickerModeAddType")
    /\ connectionPicker' =
         IF currentIdx > 0
         THEN [connectionPicker EXCEPT !.newConnType = PickerTypes[currentIdx]]
         ELSE connectionPicker
    /\ PickerOnly

AddTypeRight ==
    /\ InPickerMode("PickerModeAddType")
    /\ connectionPicker' =
         IF currentIdx < Len(PickerTypes) - 1
         THEN [connectionPicker EXCEPT !.newConnType = PickerTypes[currentIdx + 2]]
         ELSE connectionPicker
    /\ PickerOnly

AddTypeTab ==
    /\ InPickerMode("PickerModeAddType")
    /\ connectionPicker' =
         [connectionPicker EXCEPT
            !.newConnType = PickerTypes[((currentIdx + 1) % Len(PickerTypes)) + 1]]
    /\ PickerOnly

\* handleAddThemeMode
AddThemeEsc ==
    /\ InPickerMode("PickerModeAddTheme")
    /\ connectionPicker' = [connectionPicker EXCEPT !.mode = "PickerModeAddType",
                                                    !.errorMessage = ""]
    /\ PickerOnly

\* the for loop that selects the new connection: the first place of name in
\* connections, or the index as it was
SelectByName(connections, name, selectedIdx) ==
    IF \E i \in 1..Len(connections) : connections[i] = name
    THEN (CHOOSE i \in 1..Len(connections) :
              connections[i] = name /\ \A j \in 1..(i - 1) : connections[j] # name) - 1
    ELSE selectedIdx

AddThemeEnter ==
    /\ InPickerMode("PickerModeAddTheme")
    /\ LET chosen == ThemeNames[connectionPicker.themeIdx + 1]
           theme == IF chosen = DefaultThemeName THEN <<>> ELSE chosen
           out == AddConnection(vaultManager, configFile,
                                connectionPicker.newConnName,
                                connectionPicker.newConnDSN,
                                connectionPicker.newConnType, theme)
           refreshed == [connectionPicker EXCEPT
                           !.connections = ListConnections(out.vm),
                           !.mode = "PickerModeList",
                           !.errorMessage = "",
                           !.newConnName = <<>>,
                           !.newConnDSN = <<>>]
       IN  /\ vaultManager' = out.vm
           /\ configFile' = out.file
           /\ connectionPicker' =
                IF out.err # ""
                THEN [connectionPicker EXCEPT !.errorMessage = "Failed to save"]
                ELSE [refreshed EXCEPT
                        !.selectedIdx = SelectByName(refreshed.connections,
                                                     refreshed.newConnName, @)]
    /\ UNCHANGED <<callVars, dbType, textarea, focus, result, queryMeta, detailView,
                   statusMessage, lastQuery, selectedRow, pageVars, pipeRun>>

AddThemeUp ==
    /\ InPickerMode("PickerModeAddTheme")
    /\ connectionPicker' =
         IF connectionPicker.themeIdx > 0
         THEN [connectionPicker EXCEPT !.themeIdx = @ - 1]
         ELSE connectionPicker
    /\ PickerOnly

AddThemeDown ==
    /\ InPickerMode("PickerModeAddTheme")
    /\ connectionPicker' =
         IF connectionPicker.themeIdx < Len(ThemeNames) - 1
         THEN [connectionPicker EXCEPT !.themeIdx = @ + 1]
         ELSE connectionPicker
    /\ PickerOnly

\* handleListMode
ListEsc ==
    /\ InPickerMode("PickerModeList")
    /\ closeConnectionPicker("Closed")

ListEnter ==
    /\ InPickerMode("PickerModeList")
    /\ IF Len(connectionPicker.connections) > 0
       THEN \E failed \in BOOLEAN :
                IF failed
                THEN /\ connectionPicker' =
                          [connectionPicker EXCEPT !.errorMessage = "switchConnection"]
                     /\ PickerOnly
                ELSE closeConnectionPicker("Switched to")
       ELSE UNCHANGED vars

ListAdd ==
    /\ InPickerMode("PickerModeList")
    /\ connectionPicker' = [connectionPicker EXCEPT
                              !.mode = "PickerModeAddName",
                              !.newConnName = <<>>,
                              !.newConnDSN = <<>>,
                              !.newConnType = <<>>,
                              !.newConnTheme = <<>>,
                              !.themeIdx = 0,
                              !.errorMessage = ""]
    /\ PickerOnly

ListDelete ==
    /\ InPickerMode("PickerModeList")
    /\ connectionPicker' =
         IF Len(connectionPicker.connections) > 0
         THEN [connectionPicker EXCEPT !.mode = "PickerModeConfirmDelete",
                                       !.errorMessage = ""]
         ELSE connectionPicker
    /\ PickerOnly

ListUp ==
    /\ InPickerMode("PickerModeList")
    /\ connectionPicker' =
         IF connectionPicker.selectedIdx > 0
         THEN LET up == connectionPicker.selectedIdx - 1 IN
              [connectionPicker EXCEPT
                 !.selectedIdx = up,
                 !.scrollOffset = IF up < @ THEN up ELSE @]
         ELSE connectionPicker
    /\ PickerOnly

ListDown ==
    /\ InPickerMode("PickerModeList")
    /\ connectionPicker' =
         IF connectionPicker.selectedIdx < Len(connectionPicker.connections) - 1
         THEN LET down == connectionPicker.selectedIdx + 1 IN
              [connectionPicker EXCEPT
                 !.selectedIdx = down,
                 !.scrollOffset = IF down >= @ + 10 THEN down - 10 + 1 ELSE @]
         ELSE connectionPicker
    /\ PickerOnly

\* handleConfirmDeleteMode
ConfirmDeleteNo ==
    /\ InPickerMode("PickerModeConfirmDelete")
    /\ connectionPicker' = [connectionPicker EXCEPT !.mode = "PickerModeList",
                                                    !.errorMessage = ""]
    /\ PickerOnly

ConfirmDeleteYes ==
    /\ InPickerMode("PickerModeConfirmDelete")
    /\ IF Len(connectionPicker.connections) = 0 THEN UNCHANGED vars
       ELSE
       LET name == connectionPicker.connections[connectionPicker.selectedIdx + 1]
           out == RemoveConnection(vaultManager, configFile, name)
           connections == ListConnections(out.vm)
       IN  /\ vaultManager' = out.vm
           /\ configFile' = out.file
           /\ connectionPicker' =
                IF out.err # ""
                THEN [connectionPicker EXCEPT !.errorMessage = "Failed to delete",
                                              !.mode = "PickerModeList"]
                ELSE [connectionPicker EXCEPT
                        !.connections = connections,
                        !.selectedIdx =
                            IF @ >= Len(connections)
                            THEN (IF Len(connections) - 1 < 0 THEN 0
                                  ELSE Len(connections) - 1)
                            ELSE @,
                        !.mode = "PickerModeList",
                        !.errorMessage = ""]
           /\ UNCHANGED <<callVars, dbType, textarea, focus, result, queryMeta,
                          detailView, statusMessage, lastQuery, selectedRow,
                          pageVars, pipeRun>>

NextPicker ==
    \/ AddNameEsc \/ AddNameEnter \/ AddNameBackspace \/ AddNameRune
    \/ AddDSNEsc \/ AddDSNEnter \/ AddDSNBackspace \/ AddDSNRune
    \/ AddTypeEsc \/ AddTypeEnter \/ AddTypeLeft \/ AddTypeRight \/ AddTypeTab
    \/ AddThemeEsc \/ AddThemeEnter \/ AddThemeUp \/ AddThemeDown
    \/ ListEsc \/ ListEnter \/ ListAdd \/ ListDelete \/ ListUp \/ ListDown
    \/ ConfirmDeleteNo \/ ConfirmDeleteYes

SpecPicker == InitPicker /\ [][NextPicker]_vars

(***************************************************************************)
(* SpecDialect: main resolves the dialect from the -type flag or, when the *)
(* flag is empty, from the DSN; an unknown dialect ends the program, any   *)
(* other is handed to NewModel as it was typed.  The running Model then    *)
(* quotes an identifier and formats a boolean with Model.dbType.           *)
(***************************************************************************)
TypeFlags ==
    UNION {CaseVariants(w) : w \in {Mysql, Postgres, Postgresql, Pg, Sqlite, Sqlite3}}
    \cup {<<>>, <<"o","r","a","c","l","e">>}
SampleDSNs ==
    {<<"p","o","s","t","g","r","e","s",":","/","/","h","/","d">>, <<"u","@","t","c","p","(","h",")","/","d">>, <<".","/","a",".","d","b">>, <<"x">>}

InitDialect ==
    /\ args \in [typeFlag : TypeFlags, dsn : SampleDSNs,
                 value : {<<"t","r","u","e">>, <<"f","a","l","s","e">>}]
    /\ ret = NoRet
    /\ ModelIdle

\* main, from the flags to tea.NewProgram(NewModel(db, detectedType, ...))
Main ==
    /\ ret.fn = "none"
    /\ LET detectedType == IF args.typeFlag = <<>> THEN detectDBType(args.dsn)
                                                  ELSE args.typeFlag
       IN  IF detectedType = <<>> \/ getDriverName(detectedType) = ""
           THEN /\ ret' = [fn |-> "main", val |-> "exit"]
                /\ UNCHANGED dbType
           ELSE /\ ret' = [fn |-> "main", val |-> "run"]
                /\ dbType' = detectedType
    /\ UNCHANGED <<args, textarea, focus, result, queryMeta, detailView,
                   statusMessage, lastQuery, selectedRow, pageVars, otherVars>>

CallQuoteIdentifier ==
    /\ ret = [fn |-> "main", val |-> "run"]
    /\ ret' = [fn |-> "quoteIdentifier", val |-> quoteIdentifier(dbType)]
    /\ UNCHANGED <<args, modelVars>>

CallFormatBoolean ==
    /\ ret = [fn |-> "main", val |-> "run"]
    /\ ret' = [fn |-> "formatValueForSQL",
               val |-> formatValueForSQL(args.value, FALSE, ColTypeBoolean, dbType)]
    /\ UNCHANGED <<args, modelVars>>

NextDialect == Main \/ CallQuoteIdentifier \/ CallFormatBoolean

SpecDialect == InitDialect /\ [][NextDialect]_vars

(***************************************************************************)
(* Properties of the value codec.                                          *)
(***************************************************************************)
Formatted == ret.fn = "formatValueForSQL"

\* a text with every single quote doubled, wrapped in single quotes
RECURSIVE QuotesDoubled(_)
QuotesDoubled(s) ==
    IF s = <<>> THEN <<>>
    ELSE (IF Head(s) = "'" THEN <<"'", "'">> ELSE <<Head(s)>>) \o QuotesDoubled(Tail(s))

SingleQuotedLiteral(s) == <<"'">> \o QuotesDoubled(s) \o <<"'">>

EqualFold(a, b) ==
    /\ Len(a) = Len(b)
    /\ \A k \in 1..Len(a) : ToLowerChar(a[k]) = ToLowerChar(b[k])

\* C5: formatValueForSQL returns NULL whenever isNull is true, whatever the
\* text, column type and dialect, and returns '' for non-null empty text,
\* whatever the column type and dialect; the two literals differ.
C5_NullAndEmptyDistinct ==
    Formatted =>
        /\ args.isNull => ret.val = <<"N","U","L","L">>
        /\ (~args.isNull /\ args.value = <<>>) => ret.val = <<"'", "'">>
        /\ (~args.isNull /\ args.value = <<>>) => ret.val # <<"N","U","L","L">>

C5_Witness ==
    /\ Formatted
    /\ args.isNull
    /\ args.value # <<>>
    /\ args.colType = ColTypeNumeric
    /\ ret.val = <<"N","U","L","L">>

\* C6: for Text, Datetime, Blob and Unknown columns a non-null non-empty text
\* is rendered wrapped in single quotes with every embedded single quote
\* doubled, and for every input Unknown is rendered exactly as Text is.
C6_TextLikeQuoted ==
    Formatted =>
        /\ (/\ args.colType \in {ColTypeText, ColTypeDatetime, ColTypeBlob, ColTypeUnknown}
            /\ ~args.isNull
            /\ args.value # <<>>)
           => ret.val = SingleQuotedLiteral(args.value)
        /\ args.colType = ColTypeUnknown
           => ret.val = formatValueForSQL(args.value, args.isNull, ColTypeText, args.dbType)

C6_Witness ==
    /\ Formatted
    /\ args.colType = ColTypeBlob
    /\ ~args.isNull
    /\ args.value = <<"x", "'", "1">>
    /\ ret.val = <<"'", "x", "'", "'", "1", "'">>

\* C7: for a Numeric column a non-null non-empty text is emitted unquoted and
\* unchanged exactly when isValidNumber accepts it, and as a single-quoted
\* literal with quotes doubled otherwise.
C7_NumericPassThrough ==
    (Formatted /\ args.colType = ColTypeNumeric /\ ~args.isNull /\ args.value # <<>>) =>
        /\ isValidNumber(args.value) => ret.val = args.value
        /\ ~isValidNumber(args.value) => ret.val = SingleQuotedLiteral(args.value)
        /\ ret.val = args.value => isValidNumber(args.value)

C7_Witness ==
    /\ Formatted
    /\ args.colType = ColTypeNumeric
    /\ ~args.isNull
    /\ args.value = <<"1", "'", "x">>
    /\ ret.val = <<"'", "1", "'", "'", "x", "'">>

\* C9: for a Boolean column a non-null non-empty text that equals, ignoring
\* case, one of true/1/yes/on/t gives 1 for mysql and TRUE otherwise, one of
\* false/0/no/off/f gives 0 for mysql and FALSE otherwise, and any other text
\* is a single-quoted literal with quotes doubled.
C9_BooleanLiterals ==
    (Formatted /\ args.colType = ColTypeBoolean /\ ~args.isNull /\ args.value # <<>>) =>
        LET isTrue == \E w \in TrueWords : EqualFold(args.value, w)
            isFalse == \E w \in FalseWords : EqualFold(args.value, w)
            mysql == args.dbType = <<"m","y","s","q","l">>
        IN  /\ (isTrue /\ mysql) => ret.val = <<"1">>
            /\ (isTrue /\ ~mysql) => ret.val = <<"T","R","U","E">>
            /\ (isFalse /\ mysql) => ret.val = <<"0">>
            /\ (isFalse /\ ~mysql) => ret.val = <<"F","A","L","S","E">>
            /\ (~isTrue /\ ~isFalse) => ret.val = SingleQuotedLiteral(args.value)

C9_Witness ==
    /\ Formatted
    /\ args.colType = ColTypeBoolean
    /\ ~args.isNull
    /\ args.value = <<"Y","e","S">>
    /\ args.dbType = <<"m","y","s","q","l">>
    /\ ret.val = <<"1">>

(***************************************************************************)
(* Properties of isValidNumber.                                            *)
(***************************************************************************)
\* the text between the first and the last non-blank character
Stripped(s) ==
    LET idx == {k \in 1..Len(s) : s[k] \notin Space} IN
    IF idx = {} THEN <<>>
    ELSE SubSeq(s, CHOOSE k \in idx : \A j \in idx : k <= j,
                   CHOOSE k \in idx : \A j \in idx : k >= j)

AllDigits(s) == \A k \in 1..Len(s) : s[k] \in Digits

IsMantissa(m) ==
    /\ \A k \in 1..Len(m) : m[k] \in Digits \cup {"."}
    /\ Cardinality({k \in 1..Len(m) : m[k] = "."}) <= 1
    /\ \E k \in 1..Len(m) : m[k] \in Digits

IsExponent(x) ==
    \/ x = <<>>
    \/ /\ x[1] \in {"e", "E"}
       /\ LET r == Tail(x)
              d == IF r # <<>> /\ r[1] \in {"+", "-"} THEN Tail(r) ELSE r
          IN  d # <<>> /\ AllDigits(d)

IsNumberText(t) ==
    \E a \in 0..1, b \in 0..Len(t) :
        /\ a <= b
        /\ a = 1 => t[1] \in {"+", "-"}
        /\ IsMantissa(SubSeq(t, a + 1, b))
        /\ IsExponent(SubSeq(t, b + 1, Len(t)))

\* C8: isValidNumber accepts exactly the texts that, once the surrounding
\* whitespace is trimmed, are an optional sign, a mantissa of digits with at
\* most one decimal point and at least one digit, and an optional exponent
\* e/E with an optional sign and at least one digit.
C8_NumberGrammar ==
    ret.fn = "isValidNumber" => (ret.val <=> IsNumberText(Stripped(args.s)))

C8_Witness ==
    /\ ret.fn = "isValidNumber"
    /\ args.s = <<" ", "1", "E", "1">>
    /\ ret.val = TRUE

(***************************************************************************)
(* Properties of the dialect switch.                                       *)
(***************************************************************************)
\* C10: the dialect token is normalised for case and synonyms: every
\* upper/lower-case spelling of mysql quotes identifiers with the backtick
\* and spells booleans 1/0, and every other token in any case quotes with
\* the double quote and spells booleans TRUE/FALSE.
C10_DialectNormalised ==
    LET mysql == EqualFold(dbType, <<"m","y","s","q","l">>) IN
    /\ ret.fn = "quoteIdentifier" =>
           ret.val = IF mysql THEN <<"BACKTICK">> ELSE <<"\"">>
    /\ (ret.fn = "formatValueForSQL" /\ args.value = <<"t","r","u","e">>) =>
           ret.val = IF mysql THEN <<"1">> ELSE <<"T","R","U","E">>
    /\ (ret.fn = "formatValueForSQL" /\ args.value = <<"f","a","l","s","e">>) =>
           ret.val = IF mysql THEN <<"0">> ELSE <<"F","A","L","S","E">>


(***************************************************************************)
(* Properties of SpecEdit: the statements the detail view generates.       *)
(***************************************************************************)
\* the row the detail view was opened on, as the result holds it
OpenedRow == result.Rows[selectedRow + 1]

\* a step of F5, F6 or F7 that appended a statement to the buffer
Appends == InDetail /\ textarea' # textarea

\* the WHERE clause on the id column with the id value of the opened row as
\* a non-NULL literal
WhereOriginalID ==
    <<" ","W","H","E","R","E"," ">> \o QuotedIdent(quoteIdentifier(dbType), queryMeta.IDColumn) \o <<" ","="," ">>
    \o formatValueForSQL(OpenedRow[queryMeta.IDIndex + 1].Value, FALSE,
                         result.ColumnTypes[queryMeta.IDIndex + 1], dbType)

\* C2: after F5, F6 or F7 has appended a generated statement g and left the
\* cursor at the end of the buffer, getQueryUnderCursor returns exactly g.
C2_GeneratedIsUnderCursor ==
    [][Appends =>
         \E g \in {generateUpdateSQL, generateDeleteSQL, generateInsertSQL} :
             /\ textarea' = appendQueryToTextarea(g)
             /\ getQueryUnderCursorAt(textarea'.value, textarea'.row) = g]_vars

\* C3: every appended UPDATE and DELETE statement ends with the WHERE clause
\* that compares the id column with the opened row's original id value as a
\* non-NULL literal, whatever the id field's text and NULL flag are.
C3_WhereUsesOriginalID ==
    [][(Appends /\ statusMessage' \in {"UPDATE statement appended. Press Ctrl+R to execute.",
                                      "DELETE statement appended. Press Ctrl+R to execute."})
         => HasSuffix(textarea'.value, WhereOriginalID \o <<";">>)]_vars

\* an UPDATE was appended whose SET list sets the id column to NULL (the id
\* field was toggled to NULL) and whose WHERE clause still names the id 7
C3_Witness ==
    /\ statusMessage = "UPDATE statement appended. Press Ctrl+R to execute."
    /\ dbType = Postgres
    /\ HasSuffix(textarea.value, <<"S","E","T"," ","\"","i","d","\""," ","="," ","N","U","L","L"," ","W","H","E","R","E"," ","\"","i","d","\""," ","="," ","7",";">>)

\* the 0-based indices, ascending, of the fields whose (text, NULL flag) pair
\* differs from the opened row's (value, isNull) pair
ChangedColumns ==
    LET changed == {i \in 0..(Len(OpenedRow) - 1) :
                       <<detailView.inputs[i + 1], detailView.isNull[i + 1]>>
                       # <<OpenedRow[i + 1].Value, OpenedRow[i + 1].IsNull>>}
        RECURSIVE Ascending(_)
        Ascending(S) == IF S = {} THEN <<>>
                        ELSE LET least == CHOOSE x \in S : \A y \in S : x <= y
                             IN  <<least>> \o Ascending(S \ {least})
    IN  Ascending(changed)

\* one assignment per index of cols, in that order
Assignments(cols) ==
    [k \in 1..Len(cols) |->
        QuotedIdent(quoteIdentifier(dbType), result.Columns[cols[k] + 1]) \o <<" ","="," ">>
        \o formatValueForSQL(detailView.inputs[cols[k] + 1], detailView.isNull[cols[k] + 1],
                             result.ColumnTypes[cols[k] + 1], dbType)]

\* C4: in an editable detail view generateUpdateSQL returns a statement if
\* and only if some column's (text, NULL flag) pair differs from the row's,
\* and then its SET list is one assignment for each changed column, in
\* result-column order, and none for an unchanged column.
C4_SetListIsChangedColumns ==
    (InDetail /\ Editable) =>
        /\ (generateUpdateSQL # <<>>) <=> (ChangedColumns # <<>>)
        /\ ChangedColumns # <<>> =>
              generateUpdateSQL =
                  <<"U","P","D","A","T","E"," ">> \o QuotedIdent(quoteIdentifier(dbType), queryMeta.TableName)
                  \o <<" ","S","E","T"," ">> \o Join(Assignments(ChangedColumns), <<",", " ">>)
                  \o WhereOriginalID

\* of the three columns id, n, b the first and the third are changed, the
\* second is not, and the statement sets exactly those two
C4_Witness ==
    /\ InDetail /\ Editable
    /\ dbType = Postgres
    /\ ChangedColumns = <<0, 2>>
    /\ generateUpdateSQL = <<"U","P","D","A","T","E"," ","\"","t","\""," ","S","E","T"," ","\"","i","d","\""," ","="," ","N","U","L","L",","," ","\"","b","\""," ","="," ","T","R","U","E"," ","W","H","E","R","E"," ","\"","i","d","\""," ","="," ","7">>

(***************************************************************************)
(* Properties of SpecSplit.  The lexical structure of a text is given one  *)
(* character at a time: each character is code, or part of a line comment, *)
(* a block comment, a single-quoted literal or a double-quoted region.     *)
(***************************************************************************)
\* the kind of each character of sql from the 1-based position i on, when
\* the scan is in mode at i
RECURSIVE Kinds(_, _, _)
Kinds(sql, i, mode) ==
    IF i > Len(sql) THEN <<>>
    ELSE
    LET c == sql[i]
        more == i < Len(sql)
        next == IF more THEN sql[i + 1] ELSE ""
        One(kind, then) == <<kind>> \o Kinds(sql, i + 1, then)
        Two(kind, then) == <<kind, kind>> \o Kinds(sql, i + 2, then)
    IN  CASE mode = "code" ->
                 IF c = "-" /\ next = "-" THEN Two("line", "line")
                 ELSE IF c = "/" /\ next = "*" THEN Two("block", "block")
                 ELSE IF c = "'" THEN One("single", "single")
                 ELSE IF c = "\"" THEN One("double", "double")
                 ELSE One("code", "code")
          [] mode = "line" ->
                 IF c = "\n" THEN One("line", "code") ELSE One("line", "line")
          [] mode = "block" ->
                 IF c = "*" /\ next = "/" THEN Two("block", "code") ELSE One("block", "block")
          [] mode = "single" ->
                 IF c = "'" /\ next = "'" THEN Two("single", "single")
                 ELSE IF c = "'" THEN One("single", "code")
                 ELSE IF c = "\\" /\ more THEN Two("single", "single")
                 ELSE One("single", "single")
          [] mode = "double" ->
                 IF c = "\"" /\ next = "\"" THEN Two("double", "double")
                 ELSE IF c = "\"" THEN One("double", "code")
                 ELSE One("double", "double")

\* the positions of the semicolons of sql that are code, and of those that
\* lie inside a literal or a comment
Terminators(sql) ==
    LET kinds == Kinds(sql, 1, "code") IN
    {i \in 1..Len(sql) : sql[i] = ";" /\ kinds[i] = "code"}

ProtectedSemicolons(sql) ==
    LET kinds == Kinds(sql, 1, "code") IN
    {i \in 1..Len(sql) : sql[i] = ";" /\ kinds[i] # "code"}

\* the pieces of sql between its terminators, each trimmed, the blank ones
\* left out, from position from on
RECURSIVE Pieces(_, _)
Pieces(sql, from) ==
    LET later == {t \in Terminators(sql) : t >= from} IN
    IF later = {}
    THEN Emit(<<>>, SubSeq(sql, from, Len(sql)))
    ELSE LET t == CHOOSE x \in later : \A y \in later : x <= y
         IN  Emit(<<>>, SubSeq(sql, from, t - 1)) \o Pieces(sql, t + 1)

\* the maximal runs [a, b] of characters of one kind other than code
Regions(sql) ==
    LET kinds == Kinds(sql, 1, "code") IN
    {r \in (1..Len(sql)) \X (1..Len(sql)) :
        /\ r[1] <= r[2]
        /\ kinds[r[1]] # "code"
        /\ \A k \in r[1]..r[2] : kinds[k] = kinds[r[1]]
        /\ (r[1] = 1 \/ kinds[r[1] - 1] # kinds[r[1]])
        /\ (r[2] = Len(sql) \/ kinds[r[2] + 1] # kinds[r[2]])}

\* C1: SplitStatements cuts a text at exactly the semicolons that lie outside
\* every single-quoted literal (with doubled quotes and backslash escapes),
\* double-quoted region, line comment and block comment; so no statement ends
\* at a semicolon inside one, and every literal or comment, up to the blanks
\* trimmed from the ends of a statement, lies inside one returned statement.
C1_ProtectedSemicolonsUncut ==
    ret.fn = "SplitStatements" =>
        /\ ret.val = Pieces(args.sql, 1)
        /\ \A r \in Regions(args.sql) :
               LET region == TrimSpace(SubSeq(args.sql, r[1], r[2])) IN
               region # <<>> => \E k \in 1..Len(ret.val) : Contains(ret.val[k], region)

\* a literal with a backslash-escaped quote and a semicolon in it is returned
\* as one statement
C1_Witness ==
    /\ ret.fn = "SplitStatements"
    /\ args.sql = <<"'", "\\", "'", ";", "'">>
    /\ ProtectedSemicolons(args.sql) = {4}
    /\ ret.val = <<args.sql>>

\* the mode in which the scan of Kinds leaves sql, from the 1-based position
\* i on in mode
RECURSIVE EndMode(_, _, _)
EndMode(sql, i, mode) ==
    IF i > Len(sql) THEN mode
    ELSE
    LET c == sql[i]
        more == i < Len(sql)
        next == IF more THEN sql[i + 1] ELSE ""
    IN  CASE mode = "code" ->
                 IF c = "-" /\ next = "-" THEN EndMode(sql, i + 2, "line")
                 ELSE IF c = "/" /\ next = "*" THEN EndMode(sql, i + 2, "block")
                 ELSE IF c = "'" THEN EndMode(sql, i + 1, "single")
                 ELSE IF c = "\"" THEN EndMode(sql, i + 1, "double")
                 ELSE EndMode(sql, i + 1, "code")
          [] mode = "line" ->
                 EndMode(sql, i + 1, IF c = "\n" THEN "code" ELSE "line")
          [] mode = "block" ->
                 IF c = "*" /\ next = "/" THEN EndMode(sql, i + 2, "code")
                 ELSE EndMode(sql, i + 1, "block")
          [] mode = "single" ->
                 IF c = "'" /\ next = "'" THEN EndMode(sql, i + 2, "single")
                 ELSE IF c = "'" THEN EndMode(sql, i + 1, "code")
                 ELSE IF c = "\\" /\ more THEN EndMode(sql, i + 2, "single")
                 ELSE EndMode(sql, i + 1, "single")
          [] mode = "double" ->
                 IF c = "\"" /\ next = "\"" THEN EndMode(sql, i + 2, "double")
                 ELSE IF c = "\"" THEN EndMode(sql, i + 1, "code")
                 ELSE EndMode(sql, i + 1, "double")

\* sql ends inside a single-quoted literal or a double-quoted region
UnterminatedQuote(sql) == EndMode(sql, 1, "code") \in {"single", "double"}

\* C11: for a text with no unterminated quote, splitting the statements of
\* SplitStatements(text) joined with ";" gives the same statements again.
C11_RejoinIdempotent ==
    (ret.fn = "SplitStatements" /\ ~UnterminatedQuote(args.sql))
        => SplitStatements(Join(ret.val, <<";">>)) = ret.val

\* the statements occur in text from the 0-based offset from on, one after
\* the other and without overlap
RECURSIVE InDocumentOrder(_, _, _)
InDocumentOrder(text, statements, from) ==
    IF statements = <<>> THEN TRUE
    ELSE LET rest == SubSeq(text, from + 1, Len(text))
             idx == Index(rest, Head(statements))
         IN  /\ idx # -1
             /\ InDocumentOrder(text, Tail(statements), from + idx + Len(Head(statements)))

\* the text after the last semicolon of sql, all of sql when it has none
AfterLastSemicolon(sql) ==
    LET semis == {i \in 1..Len(sql) : sql[i] = ";"}
        last == IF semis = {} THEN 0 ELSE CHOOSE i \in semis : \A j \in semis : j <= i
    IN  SubSeq(sql, last + 1, Len(sql))

\* C12: every statement SplitStatements returns is non-empty and has no
\* leading or trailing whitespace; the statements lie in the text in the order
\* returned; a text of semicolons and whitespace only (so also a blank text)
\* gives no statement; and text that follows the last semicolon is returned,
\* trimmed, at the end of the last statement.
C12_StatementsTrimmedInOrder ==
    ret.fn = "SplitStatements" =>
        /\ \A k \in 1..Len(ret.val) : ret.val[k] # <<>> /\ TrimSpace(ret.val[k]) = ret.val[k]
        /\ InDocumentOrder(args.sql, ret.val, 0)
        /\ (\A i \in 1..Len(args.sql) : args.sql[i] \in Space \cup {";"}) => ret.val = <<>>
        /\ TrimSpace(AfterLastSemicolon(args.sql)) # <<>> =>
               /\ ret.val # <<>>
               /\ HasSuffix(ret.val[Len(ret.val)], TrimSpace(AfterLastSemicolon(args.sql)))

\* two statements around a run of semicolons, the second one not terminated
C12_Witness ==
    /\ ret.fn = "SplitStatements"
    /\ args.sql = <<" ", ";", "a", ";", ";", " ", "a">>
    /\ ret.val = <<<<"a">>, <<"a">>>>

(***************************************************************************)
(* Properties of SpecCursor.  Offsets are 0-based: the cursor at offset o  *)
(* stands before the character content[o].                                 *)
(***************************************************************************)
\* the absolute offset of the cursor: the characters of the lines above it,
\* their newlines, and its column
CursorOffset ==
    LET lines == Split(textarea.value, "\n")
        above == SubSeq(lines, 1, textarea.row)
    IN  Len(Join(above, <<"\n">>)) + (IF textarea.row > 0 THEN 1 ELSE 0) + args.col

\* the offsets of the semicolons of the buffer
Semicolons == {o \in 0..(Len(textarea.value) - 1) : textarea.value[o + 1] = ";"}

LastSemicolon == CHOOSE o \in Semicolons : \A p \in Semicolons : p <= o

\* the segment that ends at the semicolon at offset semi: the text after the
\* semicolon before it, or from the start of the buffer, trimmed, without
\* the semicolon
SegmentEndingAt(semi) ==
    LET before == {o \in Semicolons : o < semi}
        start == IF before = {} THEN 0
                 ELSE (CHOOSE o \in before : \A p \in before : p <= o) + 1
    IN  TrimSpace(SubSeq(textarea.value, start + 1, semi))

\* the text after the last semicolon
TextAfterLast == SubSeq(textarea.value, LastSemicolon + 2, Len(textarea.value))

\* C13: for every buffer and cursor position with a semicolon at or after
\* the cursor's absolute offset, getQueryUnderCursor returns the segment that
\* ends at the first such semicolon, trimmed and without the semicolon.
C13_EnclosingStatement ==
    ret.fn = "getQueryUnderCursor" =>
        LET after == {o \in Semicolons : o >= CursorOffset} IN
        after # {} =>
            ret.val = SegmentEndingAt(CHOOSE o \in after : \A p \in after : o <= p)

\* C14: getQueryUnderCursor returns the empty string when the buffer has no
\* semicolon, wherever the cursor is, and when the cursor lies after the last
\* semicolon and text other than whitespace follows that semicolon.
C14_NoUnterminatedText ==
    ret.fn = "getQueryUnderCursor" =>
        /\ Semicolons = {} => ret.val = <<>>
        /\ (Semicolons # {} /\ CursorOffset > LastSemicolon /\ TrimSpace(TextAfterLast) # <<>>)
               => ret.val = <<>>

\* C15: when the cursor lies after the last semicolon and only whitespace
\* follows that semicolon, getQueryUnderCursor returns the last complete
\* segment, trimmed and without its semicolon.
C15_ParkedAfterLastStatement ==
    ret.fn = "getQueryUnderCursor" =>
        ((Semicolons # {} /\ CursorOffset > LastSemicolon /\ TrimSpace(TextAfterLast) = <<>>)
            => ret.val = SegmentEndingAt(LastSemicolon))


(***************************************************************************)
(* Properties of SpecMeta.                                                 *)
(***************************************************************************)
\* the statement as it is classified, and in upper case
Statement == TrimSpace(args.query)
UpperStatement == ToUpper(Statement)

\* the query was executed and did not fail
Answered == args.result # Nil /\ ~args.result.Error

StartsWithSelect == HasPrefix(UpperStatement, <<"S","E","L","E","C","T">>)

\* the whitespace-separated words of s
Words(s) == LET fields == Fields(s) IN {fields[k] : k \in 1..Len(fields)}

\* the text of the statement after its first FROM
AfterFrom ==
    SubSeq(Statement, Index(UpperStatement, <<" ","F","R","O","M"," ">>) + 7, Len(Statement))

\* the table reference: AfterFrom up to the earliest of WHERE, ORDER BY,
\* LIMIT and GROUP BY, all of it when none occurs
TableReference ==
    LET upper == ToUpper(AfterFrom)
        cuts == {Index(upper, kw) :
                    kw \in {<<" ","W","H","E","R","E"," ">>, <<" ","O","R","D","E","R"," ","B","Y"," ">>, <<" ","L","I","M","I","T"," ">>, <<" ","G","R","O","U","P"," ","B","Y"," ">>}} \ {-1}
    IN  IF cuts = {} THEN AfterFrom
        ELSE SubSeq(AfterFrom, 1, CHOOSE c \in cuts : \A d \in cuts : c <= d)

\* the characters of s up to its first whitespace
RECURSIVE FirstWord(_)
FirstWord(s) ==
    IF s = <<>> \/ Head(s) \in Space THEN <<>> ELSE <<Head(s)>> \o FirstWord(Tail(s))

\* the first word of the table reference once trimmed and without backticks
TableNameOf ==
    LET kept == SelectSeq(TrimSpace(TableReference), LAMBDA c : c # "BACKTICK")
    IN  FirstWord(TrimLeft(kept, Space))

\* the 0-based indices of the result columns whose lower-cased name is id
IdColumns ==
    {i \in 0..(Len(args.result.Columns) - 1) : ToLower(args.result.Columns[i + 1]) = <<"i", "d">>}

\* some reason of the list makes the statement non-editable
Disqualified ==
    \/ \E token \in {<<"C","O","U","N","T","(">>, <<"S","U","M","(">>, <<"A","V","G","(">>, <<"M","I","N","(">>, <<"M","A","X","(">>, <<"G","R","O","U","P","_","C","O","N","C","A","T","(">>,
                     <<"G","R","O","U","P"," ","B","Y">>, <<"H","A","V","I","N","G">>, <<"D","I","S","T","I","N","C","T">>} : Contains(UpperStatement, token)
    \/ Contains(UpperStatement, <<" ","J","O","I","N"," ">>)
    \/ ~Contains(UpperStatement, <<" ","F","R","O","M"," ">>)
    \/ Contains(TableReference, <<",">>)
    \/ TableNameOf = <<>>
    \/ IdColumns = {}

\* C16: a SELECT statement with a JOIN clause is classified as not editable,
\* whatever the columns of the result are.
C16_JoinNotEditable ==
    (ret.fn = "parseQueryMeta" /\ Answered /\ StartsWithSelect
        /\ <<"J","O","I","N">> \in Words(UpperStatement))
    => (ret.val # Nil /\ ~ret.val.IsEditable)

\* C17: for an executed SELECT statement that contains an aggregate or
\* grouping token or JOIN between blanks, has no FROM between blanks, has a
\* comma in its table reference, has an empty table name, or whose result has
\* no column named id in any case, parseQueryMeta returns IsEditable false
\* with TableName and IDColumn empty and IDIndex zero.
C17_DisqualifiedIsBare ==
    (ret.fn = "parseQueryMeta" /\ Answered /\ StartsWithSelect /\ Disqualified)
    => ret.val = [TableName |-> <<>>, IsEditable |-> FALSE, IDColumn |-> <<>>, IDIndex |-> 0]

\* SELECT DISTINCT over one table whose result has an id column
C17_Witness ==
    /\ ret.fn = "parseQueryMeta"
    /\ args.query = <<"S","e","l","e","c","t"," ","D","I","S","T","I","N","C","T"," ","n"," ","F","R","O","M"," ","t">>
    /\ Answered
    /\ IdColumns = {0}
    /\ ret.val = [TableName |-> <<>>, IsEditable |-> FALSE, IDColumn |-> <<>>, IDIndex |-> 0]

\* C18: when parseQueryMeta returns IsEditable true, TableName is not empty
\* and is the first word of the table reference without backticks, IDIndex is
\* the smallest index of a column whose lower-cased name is id, and IDColumn
\* is that column's name as the result reports it.
C18_EditableMeta ==
    (ret.fn = "parseQueryMeta" /\ ret.val # Nil /\ ret.val.IsEditable)
    => /\ ret.val.TableName # <<>>
       /\ ret.val.TableName = TableNameOf
       /\ IdColumns # {}
       /\ ret.val.IDIndex \in IdColumns
       /\ \A i \in IdColumns : ret.val.IDIndex <= i
       /\ ret.val.IDColumn = args.result.Columns[ret.val.IDIndex + 1]

\* a backtick-quoted table with an ORDER BY list, and a result whose second
\* and third columns are both named id
C18_Witness ==
    /\ ret.fn = "parseQueryMeta"
    /\ args.query = <<"S","E","L","E","C","T"," ","*"," ","f","r","o","m"," ","BACKTICK","t","BACKTICK"," ","O","R","D","E","R"," ","B","Y"," ","a",","," ","b">>
    /\ Answered
    /\ IdColumns = {1, 2}
    /\ ret.val = [TableName |-> <<"t">>, IsEditable |-> TRUE, IDColumn |-> <<"I", "d">>, IDIndex |-> 1]

\* C19: parseQueryMeta returns nil exactly when the result is missing or
\* carries an error or the trimmed statement does not start with SELECT in
\* any case; otherwise it returns a QueryMeta.
C19_NilOnlyWithoutSelectResult ==
    ret.fn = "parseQueryMeta" =>
        /\ (ret.val = Nil) <=> (~Answered \/ ~StartsWithSelect)
        /\ ret.val # Nil => DOMAIN ret.val = {"TableName", "IsEditable", "IDColumn", "IDIndex"}

\* a SELECT whose execution failed
C19_Witness ==
    /\ ret.fn = "parseQueryMeta"
    /\ StartsWithSelect
    /\ args.result = ErrorResult
    /\ ret.val = Nil


(***************************************************************************)
(* Properties of SpecClassify.                                             *)
(***************************************************************************)
\* the categories in their priority, each with the keywords that are not
\* already implied by a shorter keyword of the same category
CategoryOrder ==
    <<[category |-> ColTypeNumeric,
       keywords |-> {<<"I","N","T">>, <<"D","E","C","I","M","A","L">>, <<"N","U","M","E","R","I","C">>, <<"F","L","O","A","T">>,
                    <<"D","O","U","B","L","E">>, <<"R","E","A","L">>, <<"S","E","R","I","A","L">>, <<"M","O","N","E","Y">>}],
      [category |-> ColTypeBoolean, keywords |-> {<<"B","O","O","L">>, <<"B","I","T">>}],
      [category |-> ColTypeDatetime, keywords |-> {<<"D","A","T","E">>, <<"T","I","M","E">>, <<"Y","E","A","R">>, <<"I","N","T","E","R","V","A","L">>}],
      [category |-> ColTypeBlob, keywords |-> {<<"B","L","O","B">>, <<"B","I","N","A","R","Y">>, <<"B","Y","T","E","A">>}],
      [category |-> ColTypeText,
       keywords |-> {<<"C","H","A","R">>, <<"T","E","X","T">>, <<"S","T","R","I","N","G">>, <<"U","U","I","D">>,
                    <<"J","S","O","N">>, <<"X","M","L">>, <<"E","N","U","M">>, <<"S","E","T">>}]>>

\* a keyword of the k-th category occurs in the upper-cased name
Occurs(name, k) == \E kw \in CategoryOrder[k].keywords : Contains(ToUpper(name), kw)

\* C20: categorizeColumnType returns the first category, in the order
\* Numeric, Boolean, Datetime, Blob, Text, one of whose keywords occurs in the
\* upper-cased type name, and Unknown when no keyword occurs.
C20_FirstMatchingCategory ==
    ret.fn = "categorizeColumnType" =>
        LET hits == {k \in 1..Len(CategoryOrder) : Occurs(args.dbTypeName, k)} IN
        IF hits = {} THEN ret.val = ColTypeUnknown
        ELSE ret.val = CategoryOrder[CHOOSE k \in hits : \A j \in hits : k <= j].category

\* a lower-case name with keywords of two categories: INTERVAL of Datetime,
\* and INT of Numeric, which comes first
C20_Witness ==
    /\ ret.fn = "categorizeColumnType"
    /\ args.dbTypeName = <<"i","n","t","e","r","v","a","l">>
    /\ Occurs(args.dbTypeName, 1) /\ Occurs(args.dbTypeName, 3)
    /\ ret.val = ColTypeNumeric


(***************************************************************************)
(* Further properties of SpecEdit.                                         *)
(***************************************************************************)
\* the 0-based indices of the result columns other than the id column,
\* ascending
OtherColumns ==
    LET others == (0..(Len(result.Columns) - 1)) \ {queryMeta.IDIndex}
        RECURSIVE Ascending(_)
        Ascending(S) == IF S = {} THEN <<>>
                        ELSE LET least == CHOOSE x \in S : \A y \in S : x <= y
                             IN  <<least>> \o Ascending(S \ {least})
    IN  Ascending(others)

\* C21: in an editable detail view generateInsertSQL names every result
\* column but the one at IDIndex, in result order and in the dialect's quotes,
\* and gives at the same position the field's current text and NULL flag
\* formatted with the column's type; the id column is in neither list.
C21_InsertSkipsIdColumn ==
    (InDetail /\ Editable) =>
        LET q == quoteIdentifier(dbType)
            names == [k \in 1..Len(OtherColumns) |->
                         q \o result.Columns[OtherColumns[k] + 1] \o q]
            values == [k \in 1..Len(OtherColumns) |->
                          formatValueForSQL(detailView.inputs[OtherColumns[k] + 1],
                                            detailView.isNull[OtherColumns[k] + 1],
                                            result.ColumnTypes[OtherColumns[k] + 1], dbType)]
        IN  /\ Len(OtherColumns) = Len(result.Columns) - 1
            /\ generateInsertSQL =
                   <<"I","N","S","E","R","T"," ","I","N","T","O"," ">> \o q \o queryMeta.TableName \o q \o <<" ", "(">>
                   \o Join(names, <<",", " ">>) \o <<")"," ","V","A","L","U","E","S"," ","(">>
                   \o Join(values, <<",", " ">>) \o <<")">>

\* the row (7, a, NULL) with 1 typed into the boolean field b: the statement
\* names n and b and carries the edited value
C21_Witness ==
    /\ InDetail /\ Editable
    /\ dbType = Postgres
    /\ queryMeta.IDIndex = 0
    /\ detailView.inputs[3] = <<"1">>
    /\ generateInsertSQL = <<"I","N","S","E","R","T"," ","I","N","T","O"," ","\"","t","\""," ","(","\"","n","\"",","," ","\"","b","\"",")"," ","V","A","L","U","E","S"," ","(","'","a","'",","," ","T","R","U","E",")">>


\* C22: while the metadata of the query is nil or says not editable, the three
\* generators return the empty string, and no key of the detail view changes
\* the query buffer, the text of a field or the NULL flag of a field.
C22_NotEditableChangesNothing ==
    [][(InDetail /\ (queryMeta = Nil \/ ~queryMeta.IsEditable)) =>
          /\ generateInsertSQL = <<>>
          /\ generateDeleteSQL = <<>>
          /\ generateUpdateSQL = <<>>
          /\ textarea' = textarea
          /\ detailView' # Nil =>
                 /\ detailView'.inputs = detailView.inputs
                 /\ detailView'.isNull = detailView.isNull]_vars

\* the detail view of a row that SHOW answered (no metadata), after moving to
\* its second field, where keys have been pressed without effect
C22_Witness ==
    /\ InDetail
    /\ queryMeta = Nil
    /\ lastQuery = <<"S","H","O","W"," ","t">>
    /\ detailView.focusedField = 1
    /\ detailView.inputs[2] = <<"a">>
    /\ ~detailView.isNull[2]


\* every field of the open detail view whose NULL flag is set has empty text
NullFieldsEmpty ==
    \A i \in 1..Len(detailView.inputs) :
        detailView.isNull[i] => detailView.inputs[i] = <<>>

\* C25: in an open detail view every field whose NULL flag is set has empty
\* text, before and after every key; Ctrl+N on a non-NULL field makes it NULL
\* with empty text, Ctrl+N on a NULL field makes it a non-NULL empty string,
\* and a key that leaves non-empty text in a NULL field clears its NULL flag.
C25_NullFieldsAreEmpty ==
    [][/\ InDetail => NullFieldsEmpty
       /\ InDetail' => NullFieldsEmpty'
       /\ (InDetail /\ InDetail') =>
              LET i == detailView.focusedField + 1 IN
              /\ (DetailToggleNull /\ queryMeta # Nil /\ queryMeta.IsEditable) =>
                     /\ detailView'.inputs[i] = <<>>
                     /\ detailView'.isNull[i] = ~detailView.isNull[i]
              /\ (detailView.isNull[i] /\ detailView'.inputs[i] # <<>>) =>
                     ~detailView'.isNull[i]]_vars

\* the row (7, a, NULL): 1 was typed into the NULL field b, which is no longer
\* NULL, and the field n was set to NULL, which emptied it
C25_Witness ==
    /\ InDetail
    /\ Len(detailView.inputs) = 3
    /\ detailView.originalValues[3].IsNull
    /\ detailView.inputs[3] = <<"1">> /\ ~detailView.isNull[3]
    /\ detailView.originalValues[2].Value = <<"a">>
    /\ detailView.inputs[2] = <<>> /\ detailView.isNull[2]
    /\ statusMessage = "Field set to NULL"


(***************************************************************************)
(* The shape of every fragment of formatValueForSQL.                       *)
(***************************************************************************)
\* the single quotes of s come in adjacent pairs
RECURSIVE QuotesPaired(_)
QuotesPaired(s) ==
    IF s = <<>> THEN TRUE
    ELSE IF s[1] # "'" THEN QuotesPaired(Tail(s))
    ELSE Len(s) >= 2 /\ s[2] = "'" /\ QuotesPaired(SubSeq(s, 3, Len(s)))

\* a text between two single quotes whose interior quotes are doubled
IsQuotedLiteral(s) ==
    /\ Len(s) >= 2
    /\ s[1] = "'" /\ s[Len(s)] = "'"
    /\ QuotesPaired(SubSeq(s, 2, Len(s) - 1))

\* a number, with blanks around it only, made of digits, signs, '.', e and E
IsBareNumber(s) ==
    /\ \A k \in 1..Len(s) : s[k] \in Digits \cup {"+", "-", ".", "e", "E"} \cup Space
    /\ \A k \in 1..Len(Stripped(s)) : Stripped(s)[k] \notin Space
    /\ IsNumberText(Stripped(s))

\* C26: for every text, column type and dialect the fragment returned by
\* formatValueForSQL is NULL, or one of TRUE, FALSE, 1, 0, or a number text
\* (digits, sign, '.', e/E, blanks around it only), or a literal between
\* single quotes whose interior single quotes are all doubled; a text that
\* is returned as it was given is a number text.
C26_FragmentIsLiteral ==
    Formatted =>
        /\ \/ ret.val = <<"N","U","L","L">>
           \/ ret.val \in {<<"T","R","U","E">>, <<"F","A","L","S","E">>, <<"1">>, <<"0">>}
           \/ IsBareNumber(ret.val)
           \/ IsQuotedLiteral(ret.val)
        /\ (ret.val = args.value /\ ~IsQuotedLiteral(ret.val)) =>
               \/ IsBareNumber(args.value)
               \/ args.value \in {<<"N","U","L","L">>, <<"T","R","U","E">>, <<"F","A","L","S","E">>}

\* a boolean column given the text on' : not a boolean word, so it is quoted
\* and its quote doubled
C26_Witness ==
    /\ Formatted
    /\ args.colType = ColTypeBoolean
    /\ ~args.isNull
    /\ args.value = <<"o", "n", "'">>
    /\ ret.val = <<"'", "o", "n", "'", "'", "'">>


\* C27: when F5, F6 or F7 appends a generated statement g to a buffer that
\* does not end inside a quote or a block comment, SplitStatements of the new
\* buffer is SplitStatements of the old buffer followed by the one statement g.
C27_AppendedIsOneStatement ==
    [][(Appends /\ EndMode(textarea.value, 1, "code") \notin {"single", "double", "block"}) =>
         \E g \in {generateUpdateSQL, generateDeleteSQL, generateInsertSQL} :
             /\ textarea' = appendQueryToTextarea(g)
             /\ SplitStatements(textarea'.value) =
                    Append(SplitStatements(textarea.value), g)]_vars

(***************************************************************************)
(* Properties of SpecPage.                                                 *)
(***************************************************************************)
\* C28: while the result of a query that succeeded is shown, after any
\* sequence of executions, Tab switches and navigation keys the page is one
\* of the pages, the selected row is not negative, is a row of the result
\* when the result has rows, and lies on the current page.
C28_SelectionConsistent ==
    (result # Nil /\ ~result.Error) =>
        /\ 0 <= currentPage /\ currentPage < totalPages
        /\ 0 <= selectedRow
        /\ Len(result.Rows) > 0 => selectedRow < Len(result.Rows)
        /\ currentPage * pageSize <= selectedRow
        /\ selectedRow < (currentPage + 1) * pageSize

(***************************************************************************)
(* Properties of SpecPipe.                                                 *)
(***************************************************************************)
\* s without the blanks and comments it begins with
RECURSIVE SkipLeading(_)
SkipLeading(s) ==
    IF s = <<>> THEN s
    ELSE IF s[1] \in Space THEN SkipLeading(Tail(s))
    ELSE IF HasPrefix(s, <<"-", "-">>)
         THEN LET nl == Index(s, <<"\n">>)
              IN  IF nl = -1 THEN <<>> ELSE SkipLeading(SubSeq(s, nl + 2, Len(s)))
    ELSE IF HasPrefix(s, <<"/", "*">>)
         THEN LET close == Index(SubSeq(s, 3, Len(s)), <<"*", "/">>)
              IN  IF close = -1 THEN <<>> ELSE SkipLeading(SubSeq(s, close + 5, Len(s)))
    ELSE s

\* the SQL command of stmt is SELECT
CommandIsSelect(stmt) ==
    LET command == ToUpper(SkipLeading(stmt)) IN
    /\ HasPrefix(command, <<"S","E","L","E","C","T">>)
    /\ Len(command) = 6 \/ \A k \in 1..26 : UpperLetters[k] # command[7]

\* the statements of the log, in the order of their execution
ExecutedStatements == [k \in 1..Len(pipeRun.executed) |-> pipeRun.executed[k].stmt]

\* at the end of the run every statement of SplitStatements has been executed
\* once, in document order, whichever of them failed
PipeExecutedAllInOrder ==
    (pipeRun # Nil /\ pipeRun.pc = "exited" /\ pipeRun.statements # <<>>) =>
        ExecutedStatements = SplitStatements(TrimSpace(pipeRun.stdin))

\* C30: at the end of a run in pipe mode every statement of SplitStatements
\* has been executed exactly once in document order, also after a failure,
\* and every statement whose command is SELECT, a comment in front of it
\* included, went through the row-returning path and had its rows printed
\* unless it failed.
C30_SelectsReturnRows ==
    (pipeRun # Nil /\ pipeRun.pc = "exited" /\ pipeRun.statements # <<>>) =>
        /\ ExecutedStatements = SplitStatements(TrimSpace(pipeRun.stdin))
        /\ \A k \in 1..Len(pipeRun.executed) :
               CommandIsSelect(pipeRun.executed[k].stmt) =>
                   /\ pipeRun.executed[k].path = "Query"
                   /\ ~pipeRun.executed[k].failed =>
                          \E o \in 1..Len(pipeRun.stdout) : pipeRun.stdout[o] = k - 1

\* the step is a call of fn on the VaultManager
Called(fn) == ret'.fn = fn

\* the call of this step changed neither the manager nor the config file
VaultUntouched == vaultManager' = vaultManager /\ configFile' = configFile

\* C23: while the vault is locked, GetConnection, AddConnection,
\* RemoveConnection and ChangePassword each return ErrVaultLocked and leave
\* the in-memory configuration, the in-memory vault and the saved config file
\* unchanged; RemoveConnection of a name that is not configured returns
\* ErrConnectionNotFound and changes nothing either.
C23_LockedCallsChangeNothing ==
    [][/\ (/\ ~vaultManager.vault.isUnlocked
           /\ \/ Called("GetConnection") \/ Called("AddConnection")
              \/ Called("RemoveConnection") \/ Called("ChangePassword"))
          => (ret'.err = "ErrVaultLocked" /\ VaultUntouched)
       /\ (/\ vaultManager.vault.isUnlocked
           /\ Called("RemoveConnection")
           /\ ~HasConnection(vaultManager.config, ret'.name))
          => (ret'.err = "ErrConnectionNotFound" /\ VaultUntouched)]_vars

\* a locked vault that holds a connection has just refused to remove it
C23_Witness ==
    /\ vaultManager # Nil
    /\ ~vaultManager.vault.isUnlocked
    /\ ret.fn = "RemoveConnection"
    /\ ret.err = "ErrVaultLocked"
    /\ HasConnection(vaultManager.config, ret.name)

\* the DSN that was sealed under name in the configuration
Sealed(vm, name) ==
    IF HasConnection(vm.config, name)
    THEN <<(CHOOSE c \in vm.config.Connections : c.name = name).EncryptedDSN[3]>>
    ELSE <<>>

\* the passwords that unlock a manager freshly loaded from the file
Accepted(file) ==
    {p \in VaultPasswords : Unlock(LoadConfig(NewVaultManager, file), file, p).err = ""}

\* in an unlocked state GetConnection returns, for every configured name,
\* the DSN that was stored under it, and nothing for any other name
UnlockedReturnsStored ==
    (vaultManager # Nil /\ vaultManager.vault.isUnlocked) =>
        \A name \in VaultNames :
            IF HasConnection(vaultManager.config, name)
            THEN /\ GetConnection(vaultManager, name).err = ""
                 /\ <<GetConnection(vaultManager, name).dsn>> = Sealed(vaultManager, name)
            ELSE GetConnection(vaultManager, name).err = "ErrConnectionNotFound"

C29_NewConnectionSelected ==
    [][(InPickerMode("PickerModeAddTheme") /\ connectionPicker'.mode = "PickerModeList") =>
          /\ connectionPicker'.connections = ListConnections(vaultManager')
          /\ connectionPicker'.selectedIdx < Len(connectionPicker'.connections)
          /\ connectionPicker'.connections[connectionPicker'.selectedIdx + 1]
                = connectionPicker.newConnName]_vars

====
